---------------------------- MODULE Spec2Model ----------------------------
(***************************************************************************)
(* The mail delivery robot simulation: the road graph (buildGraph), the    *)
(* world state (VillageState: move, random), the path finder (findRoute),  *)
(* the goal-directed strategy (goalOrientedRobot) and the runner           *)
(* (countSteps).                                                           *)
(*                                                                         *)
(* JavaScript objects live in a heap: a VillageState object and a parcel   *)
(* object are each a heap cell reached through a reference (a number), so  *)
(* that sharing, identity ("returns this") and mutation can be told apart  *)
(* from copying.  A road string "X-Y" is the token sequence <<X, "-", Y>>. *)
(***************************************************************************)
EXTENDS Integers, Sequences, FiniteSets, TLC

VARIABLES
  roads,     \* the edge list `roads`
  roadGraph, \* the constant roadGraph = buildGraph(roads)
  heap,      \* [states: ref -> VillageState object, parcels: ref -> parcel object]
  scenario,  \* reference to the state the caller created (state1, compareRobots' state)
  state,     \* reference held by the variable `state` of the running code
  call,      \* the last move call: receiver, its fields before the call, argument, result
  memory,    \* the runner's variable `memory`
  steps,     \* the runner's counter `steps`
  pc,        \* position of the running code
  from,      \* findRoute's parameter `from`
  to,        \* findRoute's parameter `to`
  work,      \* findRoute's work list
  i,         \* findRoute's outer loop index (0-based, as in the code)
  n,         \* position of the for-of iterator in graph[at] (0-based)
  result,    \* findRoute's return value
  mailRoute, \* the preset route `mailRoute` of routeRobot
  trace,     \* the strategy calls made so far: arguments and returned action
  robot,     \* the runner's parameter `robot`, by the name of the function
  frame,     \* the locals of VillageState.random: parcelCount, parcels, i, address, place
  compare,   \* the parameters and locals of compareRobots
  group      \* a Group object (its members) and the iterator made from it

vars == <<roads, roadGraph, heap, scenario, state, call, memory, steps, pc,
          from, to, work, i, n, result, mailRoute, trace, robot, frame, compare, group>>

---------------------------------------------------------------------------
(* Bounds of the model. *)

\* longest edge list given to buildGraph in the world-state specification
MaxRoads == 2
\* largest parcelCount given to VillageState.random
MaxParcels == 2
\* longest edge list given to buildGraph in the path-finder specification
MaxEdges == 3
\* turns after which the model stops a run of the runner
MaxTurns == 20
\* longest memory a strategy is called with
MaxMemory == 2
\* picks of a place for one parcel after which the model stops following the
\* do-while loop of VillageState.random
MaxSamples == 3
\* longest preset route given to routeRobot, the program's mailRoute apart
MaxRoute == 2
\* successive calls of routeRobot
MaxCalls == 4

\* location labels the bounded edge lists are drawn from, in a fixed order
LabelOrder == <<"Post Office", "A", "B", "C">>

Labels == {LabelOrder[k] : k \in 1..Len(LabelOrder)}

\* labels plus a value that names no location (an invalid direction)
Directions == Labels \cup {"Nowhere"}

---------------------------------------------------------------------------
(* Graph Builder *)

Road(a, b) == <<a, "-", b>>

\* r.split("-") on a token sequence
RECURSIVE split(_)
split(r) ==
  IF r = <<>> THEN <<"">>
  ELSE IF Head(r) = "-" THEN <<"">> \o split(Tail(r))
  ELSE IF Len(r) = 1 THEN <<r[1]>>
  ELSE <<r[1]>> \o split(Tail(Tail(r)))

\* the destructuring  let [from, to] = ...
Destructure(pieces) ==
  [from |-> IF Len(pieces) >= 1 THEN pieces[1] ELSE "undefined",
   to   |-> IF Len(pieces) >= 2 THEN pieces[2] ELSE "undefined"]

\* an addEdge that leaves out a neighbour the sequence already holds
addEdgeOnce(graph, a, b) ==
  IF a \notin DOMAIN graph
    THEN [v \in DOMAIN graph \cup {a} |-> IF v = a THEN <<b>> ELSE graph[v]]
  ELSE IF \E k \in 1..Len(graph[a]) : graph[a][k] = b
    THEN graph
  ELSE [graph EXCEPT ![a] = Append(@, b)]

\* addEdge(from, to) on the graph under construction
addEdge(graph, a, b) ==
  IF a \notin DOMAIN graph
    THEN [v \in DOMAIN graph \cup {a} |-> IF v = a THEN <<b>> ELSE graph[v]]
    ELSE [graph EXCEPT ![a] = Append(@, b)]

\* a loop body that adds the edge in one direction only
addRoadOneWay(graph, r) ==
  LET e == Destructure(split(r))
  IN  addEdge(graph, e.from, e.to)

\* the body of buildGraph's loop for the road string r:
\* addEdge(from, to); addEdge(to, from)
addRoad(graph, r) ==
  LET e == Destructure(split(r))
  IN  addEdge(addEdge(graph, e.from, e.to), e.to, e.from)

RECURSIVE buildGraphFrom(_, _, _)
buildGraphFrom(graph, edges, k) ==
  IF k > Len(edges) THEN graph
  ELSE buildGraphFrom(addRoad(graph, edges[k]), edges, k + 1)

buildGraph(edges) == buildGraphFrom(<<>>, edges, 1)

\* Object.keys(graph), as the set of its entries (their order is not modelled)
ObjectKeys(graph) == DOMAIN graph

\* array.includes(x)
includes(array, x) == \E k \in 1..Len(array) : array[k] = x

\* the possible results of randomPick(array), array given as the set of its
\* entries: any entry, or undefined (array[0]) when the array is empty
randomPick(entries) == IF entries = {} THEN {"undefined"} ELSE entries

\* a slice that returns the whole array
sliceWhole(array, start) == array

\* array.slice(start): a new array of the entries from index start (0-based) on
slice(array, start) == SubSeq(array, start + 1, Len(array))

---------------------------------------------------------------------------
(* Heap *)

EmptyHeap == [states |-> <<>>, parcels |-> <<>>]

\* the k smallest references not in `used`, in increasing order
FreshRefs(used, k) ==
  LET free == (1..(Cardinality(used) + k)) \ used
  IN  [m \in 1..k |-> CHOOSE x \in free : Cardinality({y \in free : y < x}) = m - 1]

\* the heap restricted to what is reachable from the state references `roots`
Collect(h, roots) ==
  LET liveStates == roots \cap DOMAIN h.states
      liveParcels == UNION {{h.states[s].parcels[k] : k \in 1..Len(h.states[s].parcels)}
                             : s \in liveStates}
  IN  [states  |-> [s \in liveStates |-> h.states[s]],
       parcels |-> [p \in liveParcels \cap DOMAIN h.parcels |-> h.parcels[p]]]

\* the parcels of state object s, as a sequence of {place, address} values
ParcelsOf(h, s) ==
  [k \in 1..Len(h.states[s].parcels) |-> h.parcels[h.states[s].parcels[k]]]

PlaceOf(h, s) == h.states[s].place

---------------------------------------------------------------------------
(* World State *)

\* new VillageState(place, parcels): allocates the object, parcels a sequence of references
NewVillageState(h, place, parcels) ==
  LET ref == FreshRefs(DOMAIN h.states, 1)[1]
  IN  [heap |-> [h EXCEPT !.states =
                     [s \in DOMAIN h.states \cup {ref} |->
                        IF s = ref THEN [place |-> place, parcels |-> parcels]
                        ELSE h.states[s]]],
       ret  |-> ref,
       threw |-> FALSE]

\* a map callback that returns every parcel as it is
mapParcelsNone(h, this, destination) ==
  LET s == h.states[this] IN
  [k \in 1..Len(s.parcels) |-> [ref |-> s.parcels[k], obj |-> h.parcels[s.parcels[k]]]]

\* a map callback that moves every parcel, wherever it is
mapParcelsAll(h, this, destination) ==
  LET s == h.states[this] IN
  [k \in 1..Len(s.parcels) |->
     [ref |-> 0,
      obj |-> [place |-> destination, address |-> h.parcels[s.parcels[k]].address]]]

\* this.parcels.map(...) of move: a parcel elsewhere is returned as it is (the
\* same object, ref its reference), a parcel at this.place is replaced by a new
\* object literal (ref = 0, not yet in the heap)
mapParcels(h, this, destination) ==
  LET s == h.states[this] IN
  [k \in 1..Len(s.parcels) |->
     LET p == h.parcels[s.parcels[k]] IN
     IF p.place # s.place
       THEN [ref |-> s.parcels[k], obj |-> p]
       ELSE [ref |-> 0, obj |-> [place |-> destination, address |-> p.address]]]

\* a filter that keeps every parcel
filterParcelsKeepAll(mapped) == mapped

\* .filter((p) => p.place != p.address)
filterParcels(mapped) == SelectSeq(mapped, LAMBDA e : e.obj.place # e.obj.address)

\* the array `parcels` of move as a sequence of references, with the heap that
\* holds the new objects among its entries
StoreParcels(h, filtered) ==
  LET created == {k \in 1..Len(filtered) : filtered[k].ref = 0}
      fresh == FreshRefs(DOMAIN h.parcels, Cardinality(created))
      refOf(k) == IF filtered[k].ref = 0
                    THEN fresh[Cardinality({m \in created : m <= k})]
                    ELSE filtered[k].ref
  IN  [heap |-> [h EXCEPT !.parcels =
                   [r \in DOMAIN h.parcels \cup {refOf(k) : k \in created} |->
                      IF r \in DOMAIN h.parcels THEN h.parcels[r]
                      ELSE filtered[CHOOSE k \in created : refOf(k) = r].obj]],
       parcels |-> [k \in 1..Len(filtered) |-> refOf(k)]]

\* a move that writes the new place into the carried parcel objects themselves
\* (p.place = destination; return p) instead of creating new objects
moveToInPlace(h, this, destination) ==
  LET s == h.states[this]
      written == [h EXCEPT !.parcels =
                    [r \in DOMAIN h.parcels |->
                       IF includes(s.parcels, r) /\ h.parcels[r].place = s.place
                         THEN [h.parcels[r] EXCEPT !.place = destination]
                         ELSE h.parcels[r]]]
      kept == SelectSeq(s.parcels,
                        LAMBDA r : written.parcels[r].place # written.parcels[r].address)
  IN  NewVillageState(written, destination, kept)

\* the else branch of move: the new parcel array and the new VillageState
moveTo(h, this, destination) ==
  LET stored == StoreParcels(h, filterParcels(mapParcels(h, this, destination)))
  IN  NewVillageState(stored.heap, destination, stored.parcels)

\* a move that does not check that destination is a neighbour
moveUnchecked(h, this, destination) == moveTo(h, this, destination)

\* a move that returns a copy of its receiver, not the receiver, when the
\* destination is no neighbour
moveCopies(h, this, destination) ==
  LET s == h.states[this] IN
  IF s.place \notin DOMAIN roadGraph
    THEN [heap |-> h, ret |-> this, threw |-> TRUE]
  ELSE IF ~includes(roadGraph[s.place], destination)
    THEN NewVillageState(h, s.place, s.parcels)
  ELSE moveTo(h, this, destination)

\* VillageState.prototype.move, called on the object `this` in heap h.
\* The result's heap is the heap after the call; threw is the TypeError of
\* reading .includes of undefined when this.place is no key of roadGraph.
move(h, this, destination) ==
  LET s == h.states[this] IN
  IF s.place \notin DOMAIN roadGraph
    THEN [heap |-> h, ret |-> this, threw |-> TRUE]
  ELSE IF ~includes(roadGraph[s.place], destination)
    THEN [heap |-> h, ret |-> this, threw |-> FALSE]
  ELSE moveTo(h, this, destination)

\* the origin VillageState.random puts the agent at
Origin == "Post Office"

\* parcel arrays built without the do-while loop: place is picked once
RandomParcelsPickedOnce(parcelCount) ==
  LET keys == ObjectKeys(roadGraph)
  IN  [1..parcelCount -> [place : randomPick(keys), address : randomPick(keys)]]

\* the parcel arrays VillageState.random(parcelCount) can build: each address is
\* any key, each place any key the do-while loop can leave with (place # address)
RandomParcels(parcelCount) ==
  LET keys == ObjectKeys(roadGraph)
      choices == {pa \in [place : randomPick(keys), address : randomPick(keys)] :
                    pa.place # pa.address}
  IN  [1..parcelCount -> choices]

\* the object literals { place, address } of the sequence ps, created in heap h
NewParcels(h, ps) ==
  LET refs == FreshRefs(DOMAIN h.parcels, Len(ps))
  IN  [heap |-> [h EXCEPT !.parcels =
                   [r \in DOMAIN h.parcels \cup {refs[k] : k \in 1..Len(ps)} |->
                      IF r \in DOMAIN h.parcels THEN h.parcels[r]
                      ELSE ps[CHOOSE k \in 1..Len(ps) : refs[k] = r]]],
       refs |-> refs]

\* the possible results of VillageState.random(parcelCount) in heap h
random(h, parcelCount) ==
  {LET np == NewParcels(h, ps)
   IN  NewVillageState(np.heap, Origin, np.refs)
   : ps \in RandomParcels(parcelCount)}

---------------------------------------------------------------------------
(* Path Finder *)

\* the value findRoute returns when its loop ends: undefined
NoRoute == [defined |-> FALSE, route |-> <<>>]

\* a test that finds no location in the work list
workSomeNever(w, place) == FALSE

\* work.some((w) => w.at == place)
workSome(w, place) == \E k \in 1..Len(w) : w[k].at = place

\* the entry the for-of iterator yields at position m (0-based) of array adj, read
\* from the end of the array
iteratorValueReversed(adj, m) == adj[Len(adj) - m]

\* the entry the for-of iterator yields at position m (0-based) of array adj
iteratorValue(adj, m) == adj[m + 1]

\* i++ that leaves i as it is
incrementStuck(k) == k

\* i++
increment(k) == k + 1

\* a first work entry whose route already holds the start
findRouteEntryWithStart(a) ==
  [work |-> <<[at |-> a, route |-> <<a>>]>>, i |-> 0, n |-> 0,
   returned |-> FALSE, result |-> NoRoute]

\* findRoute's frame after  let work = [{ at: from, route: [] }]  and  let i = 0
findRouteEntry(a) ==
  [work |-> <<[at |-> a, route |-> <<>>]>>, i |-> 0, n |-> 0,
   returned |-> FALSE, result |-> NoRoute]

\* one step of findRoute in frame f: the loop test, the next entry of graph[at],
\* or the end of the for-of loop followed by i++
findRouteStep(graph, b, f) ==
  IF ~(f.i < Len(f.work))
    THEN [f EXCEPT !.returned = TRUE, !.result = NoRoute]
  ELSE
    LET at == f.work[f.i + 1].at
        route == f.work[f.i + 1].route
    IN  IF f.n >= Len(graph[at])
          THEN [f EXCEPT !.i = increment(@), !.n = 0]
        ELSE
          LET place == iteratorValue(graph[at], f.n) IN
          IF place = b
            THEN [f EXCEPT !.returned = TRUE,
                           !.result = [defined |-> TRUE, route |-> Append(route, place)]]
          ELSE IF ~workSome(f.work, place)
            THEN [f EXCEPT !.work = Append(@, [at |-> place,
                                               route |-> Append(route, place)]),
                           !.n = @ + 1]
          ELSE [f EXCEPT !.n = @ + 1]

RECURSIVE findRouteRun(_, _, _)
findRouteRun(graph, b, f) ==
  IF f.returned THEN f.result ELSE findRouteRun(graph, b, findRouteStep(graph, b, f))

\* findRoute(graph, from, to): [defined |-> TRUE, route] or undefined
findRoute(graph, a, b) == findRouteRun(graph, b, findRouteEntry(a))

---------------------------------------------------------------------------
(* Edge lists the specifications draw roads from *)

\* road strings "X-Y" with X not after Y in LabelOrder ("Y-X" builds the same
\* adjacency sequences as "X-Y" when X # Y)
RoadStrings ==
  {Road(LabelOrder[q[1]], LabelOrder[q[2]]) :
     q \in {q \in (1..Len(LabelOrder)) \X (1..Len(LabelOrder)) : q[1] <= q[2]}}

\* the edge lists of 1..m road strings
EdgeLists(m) == UNION {[1..k -> RoadStrings] : k \in 1..m}

\* edge lists whose graph holds the origin of VillageState.random
WorldRoads == {rs \in EdgeLists(MaxRoads) : Origin \in DOMAIN buildGraph(rs)}

\* road strings "X-Y" for any two labels, either way round
AllRoadStrings == {Road(x, y) : x \in Labels, y \in Labels}

\* the edge lists buildGraph is given in its own specification
BuildRoads == UNION {[1..k -> AllRoadStrings] : k \in 0..MaxEdges}

---------------------------------------------------------------------------
(* Idle values of the variables a specification does not use *)

NoCall == [op |-> "none", this |-> 0, place |-> "", refs |-> <<>>,
           parcels |-> <<>>, destination |-> "", ret |-> 0]

RunnerIdle == memory = <<>> /\ steps = 0

NoFrame == [parcelCount |-> 0, parcels |-> <<>>, i |-> 0,
            address |-> "undefined", place |-> "undefined", samples |-> 0]

\* a Group as new Group() leaves it (this.members = []), with no iterator made
\* from it; calls is the history of its add and delete calls, returned the
\* result of a has call made since the last of them, yielded the values the
\* iterator has returned
NoGroup ==
  [members |-> <<>>, calls |-> <<>>, returned |-> <<>>, iterator |-> "none",
   index |-> 0, yielded |-> <<>>]

\* compareRobots has not been called
NoCompare ==
  [robot1 |-> "", memory1 |-> <<>>, robot2 |-> "", memory2 |-> <<>>, runs |-> 0,
   i |-> 0, total1 |-> 0, total2 |-> 0, running |-> 0, report |-> <<>>,
   generated |-> 0, produced |-> [place |-> "", refs |-> <<>>, parcels |-> <<>>],
   preset |-> <<>>]

StrategyIdle == mailRoute = <<>> /\ trace = <<>> /\ robot = ""

FindRouteIdle ==
  /\ from = "" /\ to = "" /\ work = <<>> /\ i = 0 /\ n = 0 /\ result = NoRoute

---------------------------------------------------------------------------
(* The world state under arbitrary move calls *)

\* let state = VillageState.random(parcelCount), for any parcelCount in the bound
InitWorld ==
  /\ frame = NoFrame
  /\ compare = NoCompare
  /\ group = NoGroup
  /\ roads \in WorldRoads
  /\ roadGraph = buildGraph(roads)
  /\ \E parcelCount \in 0..MaxParcels :
       \E r \in random(EmptyHeap, parcelCount) :
         /\ heap = r.heap
         /\ scenario = r.ret
         /\ state = r.ret
  /\ call = NoCall
  /\ pc = "world"
  /\ RunnerIdle
  /\ FindRouteIdle
  /\ StrategyIdle

\* state = state.move(destination), the receiver recorded as it was before the call
MoveCall(this, destination) ==
  LET h == Collect(heap, {scenario, this})
      r == move(h, this, destination)
  IN  /\ heap' = r.heap
      /\ state' = r.ret
      /\ call' = [op |-> IF r.threw THEN "threw" ELSE "move",
                  this |-> this,
                  place |-> PlaceOf(h, this),
                  refs |-> h.states[this].parcels,
                  parcels |-> ParcelsOf(h, this),
                  destination |-> destination,
                  ret |-> r.ret]

\* a caller moves the state on with any argument
Move(destination) ==
  /\ pc = "world"
  /\ MoveCall(state, destination)
  /\ UNCHANGED <<roads, roadGraph, scenario, memory, steps, pc, from, to, work, i, n, result,
                 mailRoute, trace, robot, frame, compare, group>>

NextWorld == \E destination \in Directions : Move(destination)

SpecWorld == InitWorld /\ [][NextWorld]_vars

---------------------------------------------------------------------------
(* VillageState.random, pick by pick *)

\* a loop test that never asks for another pick
samePlaceNever(place, address) == FALSE

\* the test of the do-while loop:  place == address
samePlace(place, address) == place = address

\* VillageState.random(parcelCount) has been called: let parcels = [], let i = 0
InitRandom ==
  /\ roads \in EdgeLists(MaxRoads) \cup {<<>>}
  /\ roadGraph = buildGraph(roads)
  /\ \E parcelCount \in 0..MaxParcels :
       frame = [NoFrame EXCEPT !.parcelCount = parcelCount]
  /\ compare = NoCompare
  /\ group = NoGroup
  /\ heap = EmptyHeap /\ scenario = 0 /\ state = 0 /\ call = NoCall
  /\ pc = "for"
  /\ RunnerIdle
  /\ FindRouteIdle
  /\ StrategyIdle

\* the loop test i < parcelCount holds:
\* let address = randomPick(Object.keys(roadGraph)); let place
RandomPickAddress ==
  /\ pc = "for"
  /\ frame.i < frame.parcelCount
  /\ \E address \in randomPick(ObjectKeys(roadGraph)) :
       frame' = [frame EXCEPT !.address = address, !.place = "undefined",
                              !.samples = 0]
  /\ pc' = "do"
  /\ UNCHANGED <<roads, roadGraph, heap, scenario, state, call, memory, steps,
                 from, to, work, i, n, result, mailRoute, trace, robot, compare, group>>

\* the body and the test of the do-while loop:
\* place = randomPick(Object.keys(roadGraph)), then either another round of the
\* loop or parcels.push({ place, address }) and i++
RandomPickPlace ==
  /\ pc = "do"
  /\ frame.samples < MaxSamples
  /\ \E place \in randomPick(ObjectKeys(roadGraph)) :
       IF samePlace(place, frame.address)
         THEN /\ frame' = [frame EXCEPT !.place = place, !.samples = @ + 1]
              /\ pc' = "do"
         ELSE /\ frame' = [frame EXCEPT
                             !.place = place,
                             !.samples = @ + 1,
                             !.parcels = Append(@, [place |-> place,
                                                    address |-> frame.address]),
                             !.i = increment(@)]
              /\ pc' = "for"
  /\ UNCHANGED <<roads, roadGraph, heap, scenario, state, call, memory, steps,
                 from, to, work, i, n, result, mailRoute, trace, robot, compare, group>>

\* the loop test i < parcelCount fails:
\* return new VillageState("Post Office", parcels)
RandomReturn ==
  /\ pc = "for"
  /\ ~(frame.i < frame.parcelCount)
  /\ LET np == NewParcels(heap, frame.parcels)
         r == NewVillageState(np.heap, Origin, np.refs)
     IN  /\ heap' = r.heap
         /\ scenario' = r.ret
         /\ state' = r.ret
  /\ pc' = "generated"
  /\ UNCHANGED <<roads, roadGraph, call, memory, steps,
                 from, to, work, i, n, result, mailRoute, trace, robot, frame, compare,
                 group>>

NextRandom == RandomPickAddress \/ RandomPickPlace \/ RandomReturn

SpecRandom == InitRandom /\ [][NextRandom]_vars

---------------------------------------------------------------------------
(* The graph builder, edge by edge *)

\* buildGraph(roads) has been called: graph = Object.create(null)
InitBuild ==
  /\ frame = NoFrame
  /\ compare = NoCompare
  /\ group = NoGroup
  /\ roads \in BuildRoads
  /\ roadGraph = <<>>
  /\ n = 0
  /\ pc = "buildGraph"
  /\ from = "" /\ to = "" /\ work = <<>> /\ i = 0 /\ result = NoRoute
  /\ heap = EmptyHeap /\ scenario = 0 /\ state = 0 /\ call = NoCall
  /\ RunnerIdle
  /\ StrategyIdle

\* one iteration of the for-of loop over the edges
BuildGraphEdge ==
  /\ pc = "buildGraph"
  /\ n < Len(roads)
  /\ roadGraph' = addRoad(roadGraph, iteratorValue(roads, n))
  /\ n' = n + 1
  /\ UNCHANGED <<roads, heap, scenario, state, call, memory, steps, pc,
                 from, to, work, i, result, mailRoute, trace, robot, frame, compare, group>>

\* the loop has ended: return graph
BuildGraphReturn ==
  /\ pc = "buildGraph"
  /\ ~(n < Len(roads))
  /\ pc' = "built"
  /\ UNCHANGED <<roads, roadGraph, heap, scenario, state, call, memory, steps,
                 from, to, work, i, n, result, mailRoute, trace, robot, frame, compare,
                 group>>

NextBuild == BuildGraphEdge \/ BuildGraphReturn

SpecBuild == InitBuild /\ [][NextBuild]_vars

---------------------------------------------------------------------------
(* The path finder, step by step *)

\* the road connections in the village
villageRoads ==
  << Road("Alice's House", "Bob's House"),
     Road("Alice's House", "Cabin"),
     Road("Alice's House", "Post Office"),
     Road("Bob's House", "Town Hall"),
     Road("Daria's House", "Ernie's House"),
     Road("Daria's House", "Town Hall"),
     Road("Ernie's House", "Grete's House"),
     Road("Grete's House", "Farm"),
     Road("Grete's House", "Shop"),
     Road("Marketplace", "Farm"),
     Road("Marketplace", "Post Office"),
     Road("Marketplace", "Shop"),
     Road("Shop", "Town Hall") >>

\* four roads with two shortest routes from the origin to C
TieRoads ==
  << Road("Post Office", "A"), Road("Post Office", "B"),
     Road("A", "C"), Road("B", "C") >>

RouteRoads == EdgeLists(MaxEdges) \cup {villageRoads, TieRoads}

\* findRoute(roadGraph, from, to) has been called with two keys of the graph
InitRoute ==
  /\ frame = NoFrame
  /\ compare = NoCompare
  /\ group = NoGroup
  /\ roads \in RouteRoads
  /\ roadGraph = buildGraph(roads)
  /\ from \in DOMAIN roadGraph
  /\ to \in DOMAIN roadGraph
  /\ work = findRouteEntry(from).work
  /\ i = 0
  /\ n = 0
  /\ result = NoRoute
  /\ pc = "findRoute"
  /\ heap = EmptyHeap /\ scenario = 0 /\ state = 0 /\ call = NoCall
  /\ RunnerIdle
  /\ StrategyIdle

\* findRoute executes its next step
FindRouteStep ==
  /\ pc = "findRoute"
  /\ LET f == findRouteStep(roadGraph, to,
                            [work |-> work, i |-> i, n |-> n,
                             returned |-> FALSE, result |-> result])
     IN  /\ work' = f.work
         /\ i' = f.i
         /\ n' = f.n
         /\ result' = f.result
         /\ pc' = IF f.returned THEN "returned" ELSE "findRoute"
  /\ UNCHANGED <<roads, roadGraph, heap, scenario, state, call, memory, steps, from, to,
                 mailRoute, trace, robot, frame, compare, group>>

NextRoute == FindRouteStep

SpecRoute == InitRoute /\ [][NextRoute]_vars

---------------------------------------------------------------------------
(* Goal-directed strategy and the runner *)

\* a robot that heads for the first parcel's address, picked up or not
goalTargetAddressOnly(place, parcel) == parcel.address

\* a robot that always heads for the first parcel's place
goalTargetPickupOnly(place, parcel) == parcel.place

\* the location goalOrientedRobot plans a route to
goalTarget(place, parcel) ==
  IF parcel.place # place THEN parcel.place ELSE parcel.address

\* a strategy call that returns an action without a direction instead of throwing
ReturnedNoDirection == [threw |-> FALSE, direction |-> "undefined", memory |-> <<>>]

\* a strategy call that ends with a TypeError
Threw == [threw |-> TRUE, direction |-> "", memory |-> <<>>]

\* goalOrientedRobot({ place, parcels }, route) on state object s of heap h.
\* It throws a TypeError when parcels[0] is undefined (reading parcel.place) and
\* when findRoute returned no route (reading route[0]).
goalOrientedRobot(h, s, route) ==
  IF Len(route) = 0
    THEN IF Len(ParcelsOf(h, s)) = 0
           THEN Threw
         ELSE
           LET found == findRoute(roadGraph, PlaceOf(h, s),
                                  goalTarget(PlaceOf(h, s), ParcelsOf(h, s)[1]))
           IN  IF found.defined
                 THEN [threw |-> FALSE, direction |-> found.route[1],
                       memory |-> slice(found.route, 1)]
                 ELSE Threw
    ELSE [threw |-> FALSE, direction |-> route[1], memory |-> slice(route, 1)]

\* a routeRobot that takes the direction off the array with memory.shift()
routeRobotShift(h, s, m) ==
  LET used == IF Len(m) = 0 THEN mailRoute ELSE m
  IN  [threw |-> FALSE,
       direction |-> IF Len(used) >= 1 THEN used[1] ELSE "undefined",
       memory |-> slice(used, 1),
       mailRoute |-> IF Len(m) = 0 THEN slice(mailRoute, 1) ELSE mailRoute]

\* routeRobot(state, memory) on state object s of heap h; mailRoute in the
\* result is the preset array after the call (the parameter memory may refer to
\* it, and slice does not write to it)
routeRobot(h, s, m) ==
  LET used == IF Len(m) = 0 THEN mailRoute ELSE m
  IN  [threw |-> FALSE,
       direction |-> IF Len(used) >= 1 THEN used[1] ELSE "undefined",
       memory |-> slice(used, 1),
       mailRoute |-> mailRoute]

\* robot(state, memory) for the function named by the runner's parameter `robot`;
\* mailRoute in the result is the preset array after the call
Strategy(name, h, s, m) ==
  IF name = "routeRobot"
    THEN routeRobot(h, s, m)
    ELSE LET action == goalOrientedRobot(h, s, m)
         IN  [threw |-> action.threw, direction |-> action.direction,
              memory |-> action.memory, mailRoute |-> mailRoute]

\* the record of a strategy call: the function, the state (its reference and the
\* number of its parcels), the memory and the preset route it was given, and the
\* action it returned
Called(name, h, s, given, action) ==
  [robot |-> name, state |-> s, parcels |-> Len(h.states[s].parcels),
   given |-> given, preset |-> mailRoute,
   threw |-> action.threw, direction |-> action.direction, memory |-> action.memory]

\* parcel arrays of at most MaxParcels parcels that satisfy the world-state invariant
ValidParcels(vertices) ==
  UNION {[1..k -> {pa \in [place : vertices, address : vertices] :
                     pa.place # pa.address}]
           : k \in 0..MaxParcels}

\* the script has not run yet
InitGoal ==
  /\ frame = NoFrame
  /\ compare = NoCompare
  /\ group = NoGroup
  /\ roads = <<>>
  /\ roadGraph = <<>>
  /\ heap = EmptyHeap
  /\ scenario = 0
  /\ state = 0
  /\ call = NoCall
  /\ memory = <<>>
  /\ steps = 0
  /\ pc = "main"
  /\ FindRouteIdle
  /\ StrategyIdle

\* the script builds roadGraph from at most MaxRoads roads and calls
\* countSteps(new VillageState(place, parcels), goalOrientedRobot, [])
CountStepsCall ==
  /\ pc = "main"
  /\ roads' \in EdgeLists(MaxRoads)
  /\ roadGraph' = buildGraph(roads')
  /\ \E place \in DOMAIN roadGraph', ps \in ValidParcels(DOMAIN roadGraph') :
       LET np == NewParcels(EmptyHeap, ps)
           r == NewVillageState(np.heap, place, np.refs)
       IN  /\ heap' = r.heap
           /\ scenario' = r.ret
           /\ state' = r.ret
  /\ memory' = <<>>
  /\ steps' = 0
  /\ robot' = "goalOrientedRobot"
  /\ pc' = "countSteps"
  /\ UNCHANGED <<call, from, to, work, i, n, result,
                 mailRoute, trace, frame, compare, group>>

\* a loop test that is met with one parcel left
parcelsEmptyAtOne(h, s) == Len(h.states[s].parcels) <= 1

\* a loop test that is never met
parcelsEmptyNever(h, s) == FALSE

\* the runner's loop test  state.parcels.length == 0
parcelsEmpty(h, s) == Len(h.states[s].parcels) = 0

\* if (state.parcels.length == 0) return steps
CountStepsReturn ==
  /\ pc = "countSteps"
  /\ parcelsEmpty(heap, state)
  /\ pc' = "done"
  /\ UNCHANGED <<roads, roadGraph, heap, scenario, state, call, memory, steps,
                 from, to, work, i, n, result,
                 mailRoute, trace, robot, frame, compare, group>>

\* one turn: action = robot(state, memory); state = state.move(action.direction);
\* memory = action.memory; steps++
CountStepsTurn ==
  /\ pc = "countSteps"
  /\ ~parcelsEmpty(heap, state)
  /\ steps < MaxTurns
  /\ LET action == Strategy(robot, heap, state, memory)
     IN  /\ ~action.threw
         /\ MoveCall(state, action.direction)
         /\ memory' = action.memory
         /\ mailRoute' = action.mailRoute
         /\ trace' = Append(trace, Called(robot, heap, state, memory, action))
  /\ steps' = increment(steps)
  /\ UNCHANGED <<roads, roadGraph, scenario, pc, from, to, work, i, n, result, robot, frame, compare,
                 group>>

\* the robot throws: the error leaves countSteps
CountStepsThrow ==
  /\ pc = "countSteps"
  /\ ~parcelsEmpty(heap, state)
  /\ Strategy(robot, heap, state, memory).threw
  /\ pc' = "threw"
  /\ UNCHANGED <<roads, roadGraph, heap, scenario, state, call, memory, steps,
                 from, to, work, i, n, result,
                 mailRoute, trace, robot, frame, compare, group>>

NextGoal == CountStepsCall \/ CountStepsReturn \/ CountStepsTurn \/ CountStepsThrow

SpecGoal == InitGoal /\ [][NextGoal]_vars

---------------------------------------------------------------------------
(* The runner with either strategy that carries a memory *)

\* the preset routes of 1..MaxRoute of the given entries
Routes(entries) == UNION {[1..k -> entries] : k \in 1..MaxRoute}

\* the script builds roadGraph from at most MaxRoads roads, has any route over
\* its locations as mailRoute, and calls
\* countSteps(new VillageState(place, parcels), routeRobot, []) with one parcel
\* at most
CountStepsRouteCall ==
  /\ pc = "main"
  /\ roads' \in EdgeLists(MaxRoads)
  /\ roadGraph' = buildGraph(roads')
  /\ \E place \in DOMAIN roadGraph',
        ps \in {ps \in ValidParcels(DOMAIN roadGraph') : Len(ps) <= 1} :
       LET np == NewParcels(EmptyHeap, ps)
           r == NewVillageState(np.heap, place, np.refs)
       IN  /\ heap' = r.heap
           /\ scenario' = r.ret
           /\ state' = r.ret
  /\ mailRoute' \in Routes(DOMAIN roadGraph')
  /\ memory' = <<>>
  /\ steps' = 0
  /\ robot' = "routeRobot"
  /\ pc' = "countSteps"
  /\ UNCHANGED <<call, from, to, work, i, n, result, trace, frame, compare, group>>

NextRunner ==
  CountStepsCall \/ CountStepsRouteCall \/ CountStepsReturn \/ CountStepsTurn \/ CountStepsThrow

SpecRunner == InitGoal /\ [][NextRunner]_vars

---------------------------------------------------------------------------
(* The goal-directed strategy called on any state with any memory *)

\* the arrays of at most MaxMemory of the given entries
Memories(entries) == UNION {[1..k -> entries] : k \in 0..MaxMemory}

\* a caller holds a state of the world-state invariant and a memory
InitPlan ==
  /\ frame = NoFrame
  /\ compare = NoCompare
  /\ group = NoGroup
  /\ roads \in EdgeLists(MaxRoads)
  /\ roadGraph = buildGraph(roads)
  /\ \E place \in DOMAIN roadGraph, ps \in ValidParcels(DOMAIN roadGraph) :
       LET np == NewParcels(EmptyHeap, ps)
           r == NewVillageState(np.heap, place, np.refs)
       IN  /\ heap = r.heap
           /\ scenario = r.ret
           /\ state = r.ret
  /\ memory \in Memories(DOMAIN roadGraph \cup {"Nowhere"})
  /\ steps = 0
  /\ call = NoCall
  /\ pc = "robot"
  /\ FindRouteIdle
  /\ mailRoute = <<>>
  /\ trace = <<>>
  /\ robot = "goalOrientedRobot"

\* let action = goalOrientedRobot(state, memory)
GoalOrientedRobotCall ==
  /\ pc = "robot"
  /\ LET action == goalOrientedRobot(heap, state, memory)
     IN  /\ trace' = Append(trace, Called(robot, heap, state, memory, action))
         /\ pc' = IF action.threw THEN "threw" ELSE "called"
  /\ UNCHANGED <<roads, roadGraph, heap, scenario, state, call, memory, steps,
                 from, to, work, i, n, result, mailRoute, robot, frame, compare, group>>

NextPlan == GoalOrientedRobotCall

SpecPlan == InitPlan /\ [][NextPlan]_vars

---------------------------------------------------------------------------
(* The fixed-route strategy called again and again *)

\* the program's preset route
villageMailRoute ==
  << "Alice's House", "Cabin", "Alice's House", "Bob's House", "Town Hall",
     "Daria's House", "Ernie's House", "Grete's House", "Shop", "Grete's House",
     "Farm", "Marketplace", "Post Office" >>

\* the preset routes of the model: the program's, and the routes of 1..MaxRoute labels
PresetRoutes == {villageMailRoute} \cup Routes(Labels)

\* a caller holds a state, a memory and the preset route
InitMailRoute ==
  /\ frame = NoFrame
  /\ compare = NoCompare
  /\ group = NoGroup
  /\ roads = <<Road(Origin, "A")>>
  /\ roadGraph = buildGraph(roads)
  /\ \E parcelCount \in 0..1 :
       \E r \in random(EmptyHeap, parcelCount) :
         /\ heap = r.heap
         /\ scenario = r.ret
         /\ state = r.ret
  /\ mailRoute \in PresetRoutes
  /\ memory \in Memories(Labels)
  /\ trace = <<>>
  /\ robot = "routeRobot"
  /\ steps = 0
  /\ call = NoCall
  /\ pc = "robot"
  /\ FindRouteIdle

\* let action = routeRobot(state, memory); memory = action.memory
RouteRobotCall ==
  /\ pc = "robot"
  /\ Len(trace) < MaxCalls
  /\ LET action == routeRobot(heap, state, memory)
     IN  /\ trace' = Append(trace, Called(robot, heap, state, memory, action))
         /\ memory' = action.memory
         /\ mailRoute' = action.mailRoute
  /\ UNCHANGED <<roads, roadGraph, heap, scenario, state, call, steps, pc,
                 from, to, work, i, n, result, robot, frame, compare, group>>

NextMailRoute == RouteRobotCall

SpecMailRoute == InitMailRoute /\ [][NextMailRoute]_vars

---------------------------------------------------------------------------
(* Properties of the world state (SpecWorld) *)

\* the argument of the last call is in the adjacency sequence of the receiver's place
CalledNeighbour ==
  /\ call.op # "none"
  /\ call.place \in DOMAIN roadGraph
  /\ includes(roadGraph[call.place], call.destination)

CalledNonNeighbour ==
  /\ call.op # "none"
  /\ call.place \in DOMAIN roadGraph
  /\ ~includes(roadGraph[call.place], call.destination)

\* what the spec says a valid move makes of the receiver's parcels: the parcels at
\* the old place get the destination as place, then the delivered ones are dropped
CarriedThenDelivered(parcels, place, destination) ==
  SelectSeq([k \in 1..Len(parcels) |->
               IF parcels[k].place = place
                 THEN [place |-> destination, address |-> parcels[k].address]
                 ELSE parcels[k]],
            LAMBDA p : p.place # p.address)

\* C1: a move to a destination that is not in the adjacency sequence of the
\* receiver's place raises no error and returns the receiver itself, with the
\* same place and the same parcel sequence.
C1_NonNeighbourMoveReturnsThis ==
  CalledNonNeighbour =>
    /\ call.op = "move"
    /\ call.ret = call.this
    /\ state = call.this
    /\ PlaceOf(heap, call.ret) = call.place
    /\ heap.states[call.ret].parcels = call.refs
    /\ ParcelsOf(heap, call.ret) = call.parcels

\* a no-op move towards an existing location, with a parcel on board
C1_Witness ==
  /\ CalledNonNeighbour
  /\ call.destination \in DOMAIN roadGraph
  /\ call.destination # call.place
  /\ \E k \in 1..Len(call.parcels) : call.parcels[k].place = call.place

\* C2: a move to a neighbour d returns a state whose place is d, that holds no
\* parcel whose place equals its address, and that has at most as many parcels
\* as the receiver.
C2_NeighbourMoveDelivers ==
  CalledNeighbour =>
    /\ call.op = "move"
    /\ PlaceOf(heap, call.ret) = call.destination
    /\ \A k \in 1..Len(ParcelsOf(heap, call.ret)) :
         ParcelsOf(heap, call.ret)[k].place # ParcelsOf(heap, call.ret)[k].address
    /\ Len(ParcelsOf(heap, call.ret)) <= Len(call.parcels)

\* a valid move that delivered a parcel and kept another
C2_Witness ==
  /\ CalledNeighbour
  /\ Len(ParcelsOf(heap, call.ret)) < Len(call.parcels)
  /\ Len(ParcelsOf(heap, call.ret)) > 0

\* C3: after a valid move the parcel sequence is the receiver's, in order, with
\* the place of each parcel at the old place replaced by the destination, every
\* other place and every address unchanged, and the delivered parcels dropped.
C3_NeighbourMoveParcels ==
  CalledNeighbour =>
    ParcelsOf(heap, call.ret)
      = CarriedThenDelivered(call.parcels, call.place, call.destination)

\* a valid move with one parcel carried along and one left where it is
C3_Witness ==
  /\ CalledNeighbour
  /\ Len(ParcelsOf(heap, call.ret)) = 2
  /\ \E k \in 1..2 : /\ call.parcels[k].place = call.place
                     /\ ParcelsOf(heap, call.ret)[k].place = call.destination
  /\ \E k \in 1..2 : /\ call.parcels[k].place # call.place
                     /\ ParcelsOf(heap, call.ret)[k] = call.parcels[k]

\* C4: after any move call the receiver object has the place and the parcel
\* array it had before the call, and each parcel object of that array has the
\* place and address it had.
C4_MoveDoesNotMutate ==
  call.op # "none" =>
    /\ call.this \in DOMAIN heap.states
    /\ PlaceOf(heap, call.this) = call.place
    /\ heap.states[call.this].parcels = call.refs
    /\ ParcelsOf(heap, call.this) = call.parcels

\* a valid move that carried a parcel of the receiver to a new place
C4_Witness ==
  /\ CalledNeighbour
  /\ call.ret # call.this
  /\ call.destination # call.place
  /\ \E k \in 1..Len(call.parcels) : call.parcels[k].place = call.place
  /\ \E k \in 1..Len(ParcelsOf(heap, call.ret)) :
       ParcelsOf(heap, call.ret)[k].place = call.destination

\* C5: in every state reached from a VillageState.random scenario by move calls
\* with any arguments, place is a vertex, every parcel's place and address are
\* vertices, and no parcel has place = address.
C5_WorldStateInvariant ==
  pc = "world" =>
    /\ PlaceOf(heap, state) \in DOMAIN roadGraph
    /\ \A k \in 1..Len(ParcelsOf(heap, state)) :
         LET p == ParcelsOf(heap, state)[k] IN
         /\ p.place \in DOMAIN roadGraph
         /\ p.address \in DOMAIN roadGraph
         /\ p.place # p.address

\* a state with a parcel on board, away from the origin, after an ignored move
C5_Witness ==
  /\ pc = "world"
  /\ CalledNonNeighbour
  /\ PlaceOf(heap, state) # Origin
  /\ \E k \in 1..Len(ParcelsOf(heap, state)) :
       ParcelsOf(heap, state)[k].place = PlaceOf(heap, state)

---------------------------------------------------------------------------
(* Properties of the path finder (SpecRoute) *)

Neighbours(graph, v) == {graph[v][k] : k \in 1..Len(graph[v])}

\* the vertices at most k hops from a
RECURSIVE Within(_, _, _)
Within(graph, a, k) ==
  IF k = 0 THEN {a}
  ELSE LET near == Within(graph, a, k - 1)
       IN  near \cup UNION {Neighbours(graph, v) : v \in near}

Reach(graph, a) == Within(graph, a, Cardinality(DOMAIN graph))

\* the unweighted shortest-path hop count from a to b, b reachable from a
Dist(graph, a, b) ==
  CHOOSE k \in 0..Cardinality(DOMAIN graph) :
    /\ b \in Within(graph, a, k)
    /\ k = 0 \/ b \notin Within(graph, a, k - 1)

\* r is a walk of the graph that leaves a: each entry is adjacent to the one before
IsWalkFrom(graph, a, r) ==
  \A k \in 1..Len(r) :
    includes(graph[IF k = 1 THEN a ELSE r[k - 1]], r[k])

\* the walks of len hops that leave a
RECURSIVE WalksFrom(_, _, _)
WalksFrom(graph, a, len) ==
  IF len = 0 THEN {<<>>}
  ELSE UNION {{<<v>> \o w : w \in WalksFrom(graph, v, len - 1)}
                : v \in Neighbours(graph, a)}

\* the positions a walk takes in the adjacency sequences it goes through
\* (the first position of each vertex)
Positions(graph, a, r) ==
  [k \in 1..Len(r) |->
     LET adj == graph[IF k = 1 THEN a ELSE r[k - 1]]
     IN  CHOOSE m \in 1..Len(adj) :
           adj[m] = r[k] /\ \A l \in 1..(m - 1) : adj[l] # r[k]]

\* lexicographic order on sequences of the same length
LexLeq(x, y) ==
  \/ x = y
  \/ \E k \in 1..Len(x) : x[k] < y[k] /\ \A m \in 1..(k - 1) : x[m] = y[m]

Returned == pc = "returned"

\* C6: for from # to with to reachable, findRoute returns a sequence that does
\* not start with from, ends with to, is a walk of the graph leaving from, and
\* has as many entries as the shortest path from from to to has hops.
C6_FindRouteShortest ==
  (Returned /\ from # to /\ to \in Reach(roadGraph, from)) =>
    /\ result.defined
    /\ Len(result.route) >= 1
    /\ result.route[1] # from
    /\ result.route[Len(result.route)] = to
    /\ IsWalkFrom(roadGraph, from, result.route)
    /\ Len(result.route) = Dist(roadGraph, from, to)

\* a route of three hops has been returned
C6_Witness ==
  /\ Returned
  /\ from # to
  /\ to \in Reach(roadGraph, from)
  /\ result.defined
  /\ Len(result.route) = 3

\* C7: findRoute(graph, v, v) returns an empty sequence.
C7_FindRouteSelfEmpty ==
  (Returned /\ from = to) => (result.defined /\ result.route = <<>>)

\* the adjacency entries of the vertices S, plus one per vertex
RECURSIVE AdjacencyCost(_, _)
AdjacencyCost(graph, S) ==
  IF S = {} THEN 0
  ELSE LET v == CHOOSE v \in S : TRUE
       IN  Len(graph[v]) + 1 + AdjacencyCost(graph, S \ {v})

\* the steps findRoute has left at most in frame f: one per entry of the adjacency
\* sequences still to be read, one per outer iteration still to be ended, one for
\* the return
StepsLeftIn(graph, f) ==
  IF f.returned THEN 0
  ELSE AdjacencyCost(graph, {f.work[k].at : k \in (f.i + 1)..Len(f.work)})
       + AdjacencyCost(graph, {v \in DOMAIN graph : ~workSome(f.work, v)})
       + 1 - f.n

StepsLeft ==
  StepsLeftIn(roadGraph, [work |-> work, i |-> i, n |-> n, returned |-> Returned])

Unreachable == to \notin Reach(roadGraph, from)

\* C8: when to is not reachable from from, findRoute terminates: every step
\* it takes uses up one of finitely many steps left, the work list never holds
\* more entries than the graph has vertices, and the call returns undefined
\* (no route), an absent result.
C8_FindRouteUnreachableEnds ==
  /\ [](Unreachable =>
          /\ StepsLeft >= 0
          /\ Len(work) <= Cardinality(DOMAIN roadGraph)
          /\ i <= Len(work)
          /\ pc = "findRoute" =>
               /\ \A k \in 1..Len(work) : work[k].at \in DOMAIN roadGraph
               /\ ENABLED <<NextRoute>>_vars
          /\ Returned => (~result.defined /\ i = Len(work)))
  /\ [][Unreachable =>
         StepsLeftIn(roadGraph, [work |-> work', i |-> i', n |-> n',
                                 returned |-> pc' = "returned"]) < StepsLeft]_vars

\* the search has expanded two locations and returned without a route
C8_Witness ==
  /\ Returned
  /\ to \notin Reach(roadGraph, from)
  /\ ~result.defined
  /\ Len(work) >= 2
  /\ i = Len(work)

\* C9: the route returned is the one the first-in first-out, adjacency-order
\* traversal completes first: among the walks from from to to of its length it
\* takes the earliest positions in the adjacency sequences; on the graph built
\* from ["A-B", "B-C"], findRoute(graph, "A", "C") is ["B", "C"].
C9_FindRouteTieBreak ==
  (Returned /\ result.defined) =>
    /\ \A w \in WalksFrom(roadGraph, from, Len(result.route)) :
         w[Len(w)] = to =>
           LexLeq(Positions(roadGraph, from, result.route),
                  Positions(roadGraph, from, w))
    /\ (roads = <<Road("A", "B"), Road("B", "C")>> /\ from = "A" /\ to = "C")
         => result.route = <<"B", "C">>

\* a route returned where another route of the same length exists
C9_Witness ==
  /\ Returned
  /\ result.defined
  /\ from # to
  /\ \E w \in WalksFrom(roadGraph, from, Len(result.route)) :
       /\ w[Len(w)] = to
       /\ w # result.route

---------------------------------------------------------------------------
(* Properties of the runner with the goal-directed strategy (SpecGoal) *)

Connected(graph) == \A a \in DOMAIN graph : Reach(graph, a) = DOMAIN graph

\* turns that suffice on a connected graph: for each parcel of the scenario a
\* route to its place and a route to its address, each shorter than the number
\* of vertices
TurnsBound ==
  2 * (Cardinality(DOMAIN roadGraph) - 1) * Len(heap.states[scenario].parcels)

\* C10: on a connected graph, from any state that satisfies the world-state
\* invariant and with empty memory, the runner with the goal-directed strategy
\* terminates: while parcels remain the strategy returns a direction (it does
\* not throw) and the turn is taken, the number of turns stays below a bound
\* fixed by the graph and the scenario, and the runner returns only with no
\* parcels left.
C10_GoalRobotTerminates ==
  (pc # "main" /\ Connected(roadGraph)) =>
    /\ pc \in {"countSteps", "done"}
    /\ steps <= TurnsBound
    /\ (pc = "countSteps" /\ Len(heap.states[state].parcels) # 0) =>
         /\ ~goalOrientedRobot(heap, state, memory).threw
         /\ steps < TurnsBound
         /\ steps < MaxTurns
    /\ pc = "done" => Len(heap.states[state].parcels) = 0

\* the runner has returned after delivering two parcels in five turns or more
C10_Witness ==
  /\ Connected(roadGraph)
  /\ pc = "done"
  /\ Len(heap.states[scenario].parcels) = 2
  /\ Len(heap.states[state].parcels) = 0
  /\ steps >= 5

\* the largest hop count between two vertices of a connected graph
Diameter(graph) ==
  LET hops == {Dist(graph, a, b) : a \in DOMAIN graph, b \in DOMAIN graph}
  IN  CHOOSE d \in hops : \A e \in hops : e <= d

\* the parcels of the state the runner was called with
ScenarioParcels == ParcelsOf(heap, scenario)

\* C11 as stated: on a connected graph the number of turns the runner reports for
\* the goal-directed strategy started with empty memory is at most the graph
\* diameter times the number of parcels of the initial state.
C11_TurnsWithinDiameterTimesParcels ==
  (pc = "done" /\ Connected(roadGraph)) =>
    steps <= Diameter(roadGraph) * Len(ScenarioParcels)

\* C11, amended: on a connected graph the number of turns the runner has taken
\* with the goal-directed strategy started with empty memory never exceeds twice
\* the graph diameter times the number of parcels of the initial state (one
\* shortest route to the first parcel's place and one to its address), and so
\* neither does the number it reports.
C11_TurnsWithinTwiceDiameterTimesParcels ==
  (pc \in {"countSteps", "done"} /\ Connected(roadGraph)) =>
    steps <= 2 * Diameter(roadGraph) * Len(ScenarioParcels)

\* the runner reports more turns than diameter x parcels: a single parcel that
\* had to be fetched across the graph and brought back
C11_Witness ==
  /\ pc = "done"
  /\ Connected(roadGraph)
  /\ Len(ScenarioParcels) = 1
  /\ Diameter(roadGraph) = 2
  /\ steps = 4

\* the scenario of the worked example: roads ["A-B", "B-C"], the agent at A with
\* one parcel at A addressed to C
ExampleScenario ==
  /\ roads = <<Road("A", "B"), Road("B", "C")>>
  /\ pc \in {"countSteps", "done"}
  /\ PlaceOf(heap, scenario) = "A"
  /\ ScenarioParcels = <<[place |-> "A", address |-> "C"]>>

\* C12: on the graph built from ["A-B", "B-C"], the runner with the goal-directed
\* strategy and empty memory, from the state at A with one parcel at A addressed
\* to C, returns exactly 2: after its first turn the state is at B carrying the
\* parcel, after its second at C with no parcels, and it returns there.
C12_ExampleTakesTwoTurns ==
  ExampleScenario =>
    /\ steps <= 2
    /\ steps = 0 => /\ state = scenario
                    /\ pc = "countSteps"
    /\ steps = 1 => /\ PlaceOf(heap, state) = "B"
                    /\ ParcelsOf(heap, state) = <<[place |-> "B", address |-> "C"]>>
                    /\ memory = <<"C">>
                    /\ pc = "countSteps"
    /\ steps = 2 => /\ PlaceOf(heap, state) = "C"
                    /\ ParcelsOf(heap, state) = <<>>
                    /\ call.place = "B"
                    /\ call.destination = "C"
    /\ pc = "done" => steps = 2

\* the example has run to its end
C12_Witness ==
  /\ ExampleScenario
  /\ pc = "done"
  /\ steps = 2
  /\ PlaceOf(heap, state) = "C"
  /\ call.place = "B"

---------------------------------------------------------------------------
(* Properties of the strategies (SpecPlan, SpecMailRoute) *)

\* C13: goalOrientedRobot called with a non-empty memory returns its first entry as
\* direction and the rest as memory, whatever the parcels are (none included);
\* called with empty memory and at least one parcel it plans with findRoute for
\* the first parcel only, to that parcel's place when the parcel is not at the
\* agent's place and to its address otherwise, and returns the head of that
\* route (a neighbour of the agent's place on a shortest path) as direction and
\* its tail as memory.
C13_GoalRobotPlansForFirstParcel ==
  \A k \in 1..Len(trace) :
    LET c == trace[k]
        place == PlaceOf(heap, state)
        parcels == ParcelsOf(heap, state)
    IN  /\ c.given # <<>> =>
             /\ ~c.threw
             /\ c.direction = Head(c.given)
             /\ c.memory = Tail(c.given)
        /\ (c.given = <<>> /\ parcels # <<>>) =>
             LET target == IF parcels[1].place # place
                             THEN parcels[1].place
                             ELSE parcels[1].address
                 found == findRoute(roadGraph, place, target)
             IN  found.defined =>
                   /\ ~c.threw
                   /\ c.direction = Head(found.route)
                   /\ c.memory = Tail(found.route)
                   /\ includes(roadGraph[place], c.direction)
                   /\ Len(c.memory) + 1 = Dist(roadGraph, place, target)
                   /\ (c.memory # <<>>) => c.memory[Len(c.memory)] = target

\* the robot planned two hops to the place of the first parcel while it was
\* carrying the second one
C13_Witness ==
  /\ Len(trace) = 1
  /\ trace[1].given = <<>>
  /\ ~trace[1].threw
  /\ Len(trace[1].memory) = 1
  /\ Len(ParcelsOf(heap, state)) = 2
  /\ ParcelsOf(heap, state)[1].place = trace[1].memory[1]
  /\ ParcelsOf(heap, state)[2].place = PlaceOf(heap, state)

\* C14: routeRobot returns the head of memory as direction and the tail as memory
\* when memory is non-empty, and when memory is empty what it returns for the
\* full preset route; with preset route [X, Y] and empty initial memory three
\* successive calls yield (X, [Y]), (Y, []), (X, [Y]); the preset route is never
\* modified.
C14_RouteRobotFollowsPreset ==
  /\ \A k \in 1..Len(trace) :
       LET c == trace[k]
           used == IF c.given = <<>> THEN c.preset ELSE c.given
       IN  /\ ~c.threw
           /\ c.direction = Head(used)
           /\ c.memory = Tail(used)
           /\ c.preset = mailRoute
  /\ \A x \in Labels, y \in Labels :
       (mailRoute = <<x, y>> /\ Len(trace) >= 3 /\ trace[1].given = <<>>) =>
         /\ trace[1].direction = x /\ trace[1].memory = <<y>>
         /\ trace[2].direction = y /\ trace[2].memory = <<>>
         /\ trace[3].direction = x /\ trace[3].memory = <<y>>

\* three calls on the preset route [A, B] from empty memory: the third call
\* started the route again
C14_Witness ==
  /\ mailRoute = <<"A", "B">>
  /\ Len(trace) = 3
  /\ trace[1].given = <<>>
  /\ trace[3].given = <<>>
  /\ trace[3].direction = "A"
  /\ memory = <<"B">>

---------------------------------------------------------------------------
(* Properties of the runner (SpecRunner) *)

InRunner == pc \in {"countSteps", "done", "threw"}

\* C15: the runner returns a value only in a state whose parcel sequence is
\* empty; the value it returns, steps, is the number of decide+move cycles it has
\* completed (each cycle a strategy call followed by a move of the same state
\* with the direction returned); it never calls the strategy on a state with
\* zero parcels; for an initial state with zero parcels it returns 0.
C15_RunnerCountsCompletedTurns ==
  InRunner =>
    /\ pc = "done" => Len(ParcelsOf(heap, state)) = 0
    /\ steps = Len(trace)
    /\ \A k \in 1..Len(trace) : trace[k].parcels > 0 /\ trace[k].robot = robot
    /\ trace # <<>> =>
         /\ call.this = trace[Len(trace)].state
         /\ call.destination = trace[Len(trace)].direction
         /\ call.ret = state
         /\ memory = trace[Len(trace)].memory
    /\ (pc = "done" /\ Len(ScenarioParcels) = 0) => (steps = 0 /\ state = scenario)
    /\ (pc = "countSteps" /\ state = scenario /\ steps = 0 /\ Len(ScenarioParcels) = 0) =>
         /\ ENABLED CountStepsReturn
         /\ ~ENABLED CountStepsTurn

\* the runner has returned 3 after three cycles of the fixed-route strategy, the
\* first of them an ignored move
C15_Witness ==
  /\ pc = "done"
  /\ robot = "routeRobot"
  /\ steps = 3
  /\ Len(trace) = 3
  /\ trace[1].state = trace[2].state
  /\ Len(ParcelsOf(heap, state)) = 0

\* C16: the runner returns if and only if the states the strategy produces reach
\* a state with zero parcels.  It returns only there, and at the first such
\* state: every state before had a parcel.  In a state with zero parcels the
\* only step it takes is to return, with the turns counted so far.  While the
\* state has a parcel it cannot return, however many turns it has taken: no turn
\* limit stops the run, its step is one more turn (or the strategy's error).
C16_RunnerStopsExactlyAtZeroParcels ==
  /\ [](/\ pc = "done" =>
            /\ Len(ParcelsOf(heap, state)) = 0
            /\ \A k \in 1..Len(trace) : trace[k].parcels > 0
        /\ (pc = "countSteps" /\ Len(ParcelsOf(heap, state)) = 0) =>
            /\ ENABLED CountStepsReturn
            /\ ~ENABLED CountStepsTurn
            /\ ~ENABLED CountStepsThrow
        /\ (pc = "countSteps" /\ Len(ParcelsOf(heap, state)) > 0) =>
            ~ENABLED CountStepsReturn)
  /\ [][(pc = "countSteps" /\ Len(ParcelsOf(heap, state)) = 0) =>
          (pc' = "done" /\ steps' = steps /\ state' = state)]_vars
  /\ [][(pc = "countSteps" /\ Len(ParcelsOf(heap, state)) > 0) =>
          \/ pc' = "threw" /\ steps' = steps /\ state' = state
          \/ pc' = "countSteps" /\ steps' = steps + 1 /\ Len(trace') = Len(trace) + 1]_vars

\* a run that has kept its parcel through every turn of the model
C16_Witness ==
  /\ pc = "countSteps"
  /\ steps = MaxTurns
  /\ Len(trace) = MaxTurns
  /\ \A k \in 1..Len(trace) : trace[k].parcels > 0
  /\ Len(ParcelsOf(heap, state)) > 0

---------------------------------------------------------------------------
(* Properties of the graph builder (SpecBuild) *)

\* the number of occurrences of b in graph[a]
Occurrences(graph, a, b) ==
  IF a \in DOMAIN graph
    THEN Cardinality({k \in 1..Len(graph[a]) : graph[a][k] = b})
    ELSE 0

\* the edge declarations the loop has gone through
Declared == SubSeq(roads, 1, n)

\* the two labels of the road string "X-Y"
Ends(r) == <<r[1], r[3]>>

\* C17: for every edge list given to buildGraph and every pair of labels A, B,
\* the number of occurrences of B in graph[A] equals the number of occurrences
\* of A in graph[B] (after each edge, and so in the graph returned).
C17_GraphSymmetric ==
  /\ \A a \in Labels, b \in Labels :
       Occurrences(roadGraph, a, b) = Occurrences(roadGraph, b, a)
  /\ pc = "built" => roadGraph = buildGraph(roads)

\* a graph returned from an edge declared twice and a third edge
C17_Witness ==
  /\ pc = "built"
  /\ Len(roads) = 3
  /\ \E a \in Labels, b \in Labels, c \in Labels :
       /\ a # b /\ c # a /\ c # b
       /\ Occurrences(roadGraph, a, b) = 2
       /\ Occurrences(roadGraph, b, a) = 2
       /\ Occurrences(roadGraph, b, c) = 1

\* what the declarations ds put into the neighbour sequence of v, in order: for
\* each declaration the other label, once for each end v stands at
RECURSIVE NeighboursDeclared(_, _)
NeighboursDeclared(ds, v) ==
  IF ds = <<>> THEN <<>>
  ELSE (IF Ends(Head(ds))[1] = v THEN <<Ends(Head(ds))[2]>> ELSE <<>>)
       \o (IF Ends(Head(ds))[2] = v THEN <<Ends(Head(ds))[1]>> ELSE <<>>)
       \o NeighboursDeclared(Tail(ds), v)

\* the labels that occur as an endpoint in the declarations ds
EndpointsDeclared(ds) == UNION {{Ends(ds[k])[1], Ends(ds[k])[2]} : k \in 1..Len(ds)}

\* the number of declarations of the edge between a and b in ds
TimesDeclared(ds, a, b) ==
  Cardinality({k \in 1..Len(ds) : ds[k] \in {Road(a, b), Road(b, a)}})

\* C18 as stated: the key set is exactly the set of labels occurring as an
\* endpoint in the edge list, and an edge declared k times contributes k entries
\* to each endpoint's sequence, one entry per incident edge declaration.
C18_EdgeDeclaredKTimesGivesKEntries ==
  pc = "built" =>
    /\ DOMAIN roadGraph = EndpointsDeclared(roads)
    /\ \A a \in Labels, b \in Labels :
         Occurrences(roadGraph, a, b) = TimesDeclared(roads, a, b)

\* C18, amended: the key set is exactly the set of labels occurring as an
\* endpoint in the edge list; the neighbour sequence of each vertex lists, in
\* declaration order and without de-duplication, the other label of each
\* declaration once for each end at which the vertex stands: an edge between two
\* distinct labels declared k times contributes k entries to each endpoint's
\* sequence, and an edge from a label to itself declared k times contributes 2k
\* entries to that label's sequence.
C18_GraphListsDeclarationsInOrder ==
  /\ DOMAIN roadGraph = EndpointsDeclared(Declared)
  /\ \A v \in DOMAIN roadGraph : roadGraph[v] = NeighboursDeclared(Declared, v)
  /\ \A a \in Labels, b \in Labels :
       Occurrences(roadGraph, a, b)
         = (IF a = b THEN 2 ELSE 1) * TimesDeclared(Declared, a, b)

\* a graph returned from an edge declared twice, either way round, with an edge
\* from a label to itself in between
C18_Witness ==
  /\ pc = "built"
  /\ roads = <<Road("A", "B"), Road("A", "A"), Road("B", "A")>>
  /\ roadGraph["A"] = <<"B", "A", "A", "B">>
  /\ roadGraph["B"] = <<"A", "A">>

---------------------------------------------------------------------------
(* Properties of scenario generation (SpecRandom) *)

\* the ordered pairs of distinct vertices, as parcels
DistinctPairs ==
  {pa \in [place : DOMAIN roadGraph, address : DOMAIN roadGraph] :
     pa.place # pa.address}

\* C19: on a graph with at least 2 vertices every outcome of
\* VillageState.random(n) is a state at the origin "Post Office" with exactly n
\* parcels, each with place and address vertices of the graph and place #
\* address; and every ordered pair of distinct vertices is a possible (place,
\* address) of each parcel, whatever the parcels picked before: every vertex
\* can be picked as address, and with any address every other vertex can be
\* picked as place and pushed.
C19_RandomGeneratesValidParcels ==
  Cardinality(DOMAIN roadGraph) >= 2 =>
    /\ pc = "generated" =>
         /\ PlaceOf(heap, state) = "Post Office"
         /\ Len(ParcelsOf(heap, state)) = frame.parcelCount
         /\ \A k \in 1..Len(ParcelsOf(heap, state)) :
              ParcelsOf(heap, state)[k] \in DistinctPairs
         /\ ParcelsOf(heap, state) = frame.parcels
         /\ [heap |-> heap, ret |-> state, threw |-> FALSE]
              \in random(EmptyHeap, frame.parcelCount)
    /\ \A k \in 1..Len(frame.parcels) : frame.parcels[k] \in DistinctPairs
    /\ (pc = "for" /\ frame.i < frame.parcelCount) =>
         \A address \in DOMAIN roadGraph :
           ENABLED (RandomPickAddress /\ frame'.address = address)
    /\ (pc = "do" /\ frame.samples < MaxSamples) =>
         /\ frame.address \in DOMAIN roadGraph
         /\ \A place \in DOMAIN roadGraph \ {frame.address} :
              ENABLED (RandomPickPlace
                       /\ frame'.parcels =
                            Append(frame.parcels,
                                   [place |-> place, address |-> frame.address]))

\* two parcels generated on a graph of three vertices, the second the first
\* the other way round, after a pick of a place that had to be repeated
C19_Witness ==
  /\ pc = "generated"
  /\ Cardinality(DOMAIN roadGraph) = 3
  /\ Len(ParcelsOf(heap, state)) = 2
  /\ ParcelsOf(heap, state)[1].place = ParcelsOf(heap, state)[2].address
  /\ ParcelsOf(heap, state)[1].address = ParcelsOf(heap, state)[2].place
  /\ frame.samples = 2

\* C20: when the graph has fewer than 2 vertices and parcelCount >= 1,
\* VillageState.random fails fast with an error: it does not go round the
\* do-while loop again and again picking a place that differs from the address.
C20_RandomFailsFast ==
  (Cardinality(DOMAIN roadGraph) < 2 /\ frame.parcelCount >= 1) =>
    frame.samples <= 1

---------------------------------------------------------------------------
(* Properties of the work list of the path finder (SpecRoute) *)

\* C26: during any execution of findRoute no two entries of the work list have
\* the same location: an entry is appended only for a location no entry holds
\* yet, so the work list never holds more entries than the graph has vertices,
\* and each location is expanded at most once (the index i only moves on, over
\* entries of different locations).
C26_WorkListHoldsEachLocationOnce ==
  /\ [](/\ \A j \in 1..Len(work), k \in 1..Len(work) :
             work[j].at = work[k].at => j = k
        /\ \A k \in 1..Len(work) : work[k].at \in DOMAIN roadGraph
        /\ Len(work) <= Cardinality(DOMAIN roadGraph)
        /\ i <= Len(work))
  /\ [][/\ i' \in {i, i + 1}
        /\ Len(work') \in {Len(work), Len(work) + 1}
        /\ SubSeq(work', 1, Len(work)) = work
        /\ Len(work') = Len(work) + 1 =>
             \A k \in 1..Len(work) : work[k].at # work'[Len(work')].at]_vars

\* a search that has gone through every adjacency sequence of three connected
\* locations, meeting each road from both ends, and holds three entries
C26_Witness ==
  /\ Returned
  /\ ~result.defined
  /\ Len(work) = 3
  /\ i = 3
  /\ \A k \in 1..3 : \E v \in DOMAIN roadGraph :
       v # work[k].at /\ includes(roadGraph[work[k].at], v)

---------------------------------------------------------------------------
(* Properties of the goal-directed strategy in the runner (SpecGoal) *)

\* the location the goal-directed strategy has to reach for the first parcel of
\* the runner's state: the parcel's place, or its address once it is carried
FirstParcelTarget ==
  LET parcel == ParcelsOf(heap, state)[1]
  IN  IF parcel.place # PlaceOf(heap, state) THEN parcel.place ELSE parcel.address

\* the runner is about to call the strategy with empty memory for a location
\* that cannot be reached from the agent's place
PlansForUnreachable ==
  /\ pc = "countSteps"
  /\ memory = <<>>
  /\ ParcelsOf(heap, state) # <<>>
  /\ FirstParcelTarget \notin Reach(roadGraph, PlaceOf(heap, state))

\* C27: when the goal-directed strategy has empty memory and the location it
\* targets is unreachable from the agent's place, that call ends with an error:
\* no action (no direction) is returned, the error leaves the runner in the same
\* step with the world state, the memory and the turn count as they were, and
\* the runner takes no further step.
C27_UnreachableTargetThrows ==
  /\ [](PlansForUnreachable => goalOrientedRobot(heap, state, memory) = Threw)
  /\ [][PlansForUnreachable =>
          /\ pc' = "threw"
          /\ heap' = heap /\ state' = state /\ call' = call
          /\ memory' = memory /\ steps' = steps /\ trace' = trace]_vars
  /\ [][pc # "threw"]_vars

\* the error has left the runner after a first parcel was delivered: the second
\* one lies where no road leads from the agent's place
C27_Witness ==
  /\ pc = "threw"
  /\ steps >= 1
  /\ memory = <<>>
  /\ Len(ParcelsOf(heap, state)) = 1
  /\ Len(ScenarioParcels) = 2
  /\ ParcelsOf(heap, state)[1].place \notin Reach(roadGraph, PlaceOf(heap, state))

---------------------------------------------------------------------------
(* Properties of the parcels across moves (SpecWorld) *)

\* the positions in the receiver's parcel array of the parcels the last move did
\* not remove, by the rule of the claim: a parcel is removed when it was at the
\* agent's old place and the destination is its address
KeptPositions ==
  {k \in 1..Len(call.parcels) :
     ~(call.parcels[k].place = call.place /\ call.parcels[k].address = call.destination)}

\* the position the m-th parcel of the result had in the receiver's array
KeptPosition(m) ==
  CHOOSE k \in KeptPositions : Cardinality({j \in KeptPositions : j < k}) = m - 1

\* C29: in every valid move, a parcel whose place is the agent's place is at the
\* agent's new place after the move unless the move removed it; a parcel is
\* removed only when it was at the agent's old place and the destination is its
\* address; a parcel that is not at the agent's place stays in the array as the
\* same object with the same place.  An ignored move changes no parcel.  As this
\* holds for every move from every reachable state, a parcel once on board stays
\* with the agent until it is removed.
C29_ParcelsFollowTheAgent ==
  /\ CalledNeighbour =>
       LET new == ParcelsOf(heap, call.ret)
           refs == heap.states[call.ret].parcels
       IN  /\ PlaceOf(heap, call.ret) = call.destination
           /\ Len(new) = Cardinality(KeptPositions)
           /\ \A m \in 1..Len(new) :
                LET old == call.parcels[KeptPosition(m)] IN
                /\ new[m].address = old.address
                /\ old.place = call.place => new[m].place = PlaceOf(heap, call.ret)
                /\ old.place # call.place =>
                     /\ new[m].place = old.place
                     /\ refs[m] = call.refs[KeptPosition(m)]
  /\ CalledNonNeighbour =>
       /\ heap.states[call.ret].parcels = call.refs
       /\ ParcelsOf(heap, call.ret) = call.parcels

\* a valid move that removed the first parcel, on board and addressed to the
\* destination, and left the second one where it lies
C29_Witness ==
  /\ CalledNeighbour
  /\ call.destination # call.place
  /\ Len(call.parcels) = 2
  /\ call.parcels[1].place = call.place
  /\ call.parcels[1].address = call.destination
  /\ call.parcels[2].place \notin {call.place, call.destination}
  /\ heap.states[call.ret].parcels = <<call.refs[2]>>

---------------------------------------------------------------------------
(* Properties of the memory of the goal-directed strategy (SpecGoal) *)

---------------------------------------------------------------------------
(* The random-walk strategy *)

\* A memory can be undefined where randomRobot is involved, so the
\* specifications of this strategy hold a memory as a JavaScript value: the
\* value undefined, or an array
undefined == [defined |-> FALSE, value |-> <<>>]

Array(entries) == [defined |-> TRUE, value |-> entries]

\* a randomPick over the distinct entries: a repeated entry is picked at its
\* first position only
ChoicesDistinct(array) ==
  {c \in 0..(Len(array) - 1) : \A d \in 0..(c - 1) : array[d + 1] # array[c + 1]}

\* the values Math.floor(Math.random() * array.length) can take
Choices(array) == 0..(Len(array) - 1)

\* a randomRobot that returns { direction, memory: [] }
randomRobotEmptyMemory(h, s, m) ==
  IF PlaceOf(h, s) \notin DOMAIN roadGraph
    THEN {[threw |-> TRUE, direction |-> "", memory |-> undefined, choice |-> 0]}
    ELSE {[threw |-> FALSE,
           direction |-> roadGraph[PlaceOf(h, s)][choice + 1],
           memory |-> Array(<<>>),
           choice |-> choice]
            : choice \in Choices(roadGraph[PlaceOf(h, s)])}

\* the possible results of randomRobot(state, memory) on state object s of heap
\* h: the object { direction: array[choice] }, for each choice of randomPick,
\* read as an action (its property memory is undefined).  The function declares
\* no second parameter.  It throws a TypeError when roadGraph[state.place] is
\* undefined (randomPick reads array.length).
randomRobot(h, s, m) ==
  IF PlaceOf(h, s) \notin DOMAIN roadGraph
    THEN {[threw |-> TRUE, direction |-> "", memory |-> undefined, choice |-> 0]}
    ELSE {[threw |-> FALSE,
           direction |-> roadGraph[PlaceOf(h, s)][choice + 1],
           memory |-> undefined,
           choice |-> choice]
            : choice \in Choices(roadGraph[PlaceOf(h, s)])}

\* the memory arguments of the model: undefined, and the arrays of at most
\* MaxMemory entries
MemoryArguments(entries) == {undefined} \cup {Array(m) : m \in Memories(entries)}

\* a caller holds a state of one parcel at most and any memory
InitPick ==
  /\ frame = NoFrame
  /\ compare = NoCompare
  /\ group = NoGroup
  /\ roads \in EdgeLists(MaxRoads)
  /\ roadGraph = buildGraph(roads)
  /\ \E place \in DOMAIN roadGraph,
        ps \in {ps \in ValidParcels(DOMAIN roadGraph) : Len(ps) <= 1} :
       LET np == NewParcels(EmptyHeap, ps)
           r == NewVillageState(np.heap, place, np.refs)
       IN  /\ heap = r.heap
           /\ scenario = r.ret
           /\ state = r.ret
  /\ memory \in MemoryArguments(DOMAIN roadGraph)
  /\ steps = 0
  /\ call = NoCall
  /\ pc = "robot"
  /\ FindRouteIdle
  /\ mailRoute = <<>>
  /\ trace = <<>>
  /\ robot = "randomRobot"

\* let action = randomRobot(state, memory)
RandomRobotCall ==
  /\ pc = "robot"
  /\ \E action \in randomRobot(heap, state, memory) :
       /\ trace' = Append(trace,
                          [robot |-> robot, state |-> state, given |-> memory,
                           threw |-> action.threw, direction |-> action.direction,
                           memory |-> action.memory, choice |-> action.choice])
       /\ pc' = IF action.threw THEN "threw" ELSE "called"
  /\ UNCHANGED <<roads, roadGraph, heap, scenario, state, call, memory, steps,
                 from, to, work, i, n, result, mailRoute, robot, frame, compare, group>>

NextPick == RandomRobotCall

SpecPick == InitPick /\ [][NextPick]_vars

---------------------------------------------------------------------------
(* Properties of the random-walk strategy called once (SpecPick) *)

\* C24: for every state whose place is a vertex of the graph, the direction
\* randomRobot returns is an entry of the adjacency sequence of state.place;
\* every entry of that sequence, a repeated one at each of its positions, is a
\* possible result; and the possible results are the same whatever the memory
\* argument is.
C24_RandomRobotPicksAnyEntry ==
  LET array == roadGraph[PlaceOf(heap, state)]
  IN  /\ pc = "called" =>
           /\ trace[1].choice \in 0..(Len(array) - 1)
           /\ trace[1].direction = array[trace[1].choice + 1]
           /\ includes(array, trace[1].direction)
      /\ pc = "robot" =>
           /\ \A k \in 0..(Len(array) - 1) :
                ENABLED (RandomRobotCall /\ pc' = "called" /\ trace'[1].choice = k)
           /\ \A m \in MemoryArguments(DOMAIN roadGraph) :
                randomRobot(heap, state, m) = randomRobot(heap, state, memory)
      /\ pc # "threw"

\* randomRobot was given a memory of two entries and returned the second of two
\* equal entries of the adjacency sequence
C24_Witness ==
  /\ pc = "called"
  /\ trace[1].given.defined
  /\ Len(trace[1].given.value) = 2
  /\ trace[1].choice = 1
  /\ roadGraph[PlaceOf(heap, state)][1] = roadGraph[PlaceOf(heap, state)][2]
  /\ trace[1].direction = roadGraph[PlaceOf(heap, state)][2]

---------------------------------------------------------------------------
(* The simulation runs of the script: each strategy on the village *)

\* largest parcelCount of the scenarios the simulation runs of randomRobot start
\* from (the runs of the other strategies start from MaxParcels parcels at most)
MaxVillageParcels == 1
\* turns after which the model stops a simulation run
MaxVillageTurns == 26

\* the functions the script runs
Robots == {"randomRobot", "routeRobot", "goalOrientedRobot"}

\* the possible results of robot(state, memory) for the function named by the
\* runner's parameter `robot`, the memory a JavaScript value; mailRoute in a
\* result is the preset array after the call.  routeRobot and goalOrientedRobot
\* read memory.length, a TypeError when the memory is undefined.
Robot(name, h, s, m) ==
  IF name = "randomRobot"
    THEN {[threw |-> action.threw, direction |-> action.direction,
           memory |-> action.memory, mailRoute |-> mailRoute]
            : action \in randomRobot(h, s, m)}
  ELSE IF ~m.defined
    THEN {[threw |-> TRUE, direction |-> "", memory |-> undefined,
           mailRoute |-> mailRoute]}
  ELSE LET action == Strategy(name, h, s, m.value)
       IN  {[threw |-> action.threw, direction |-> action.direction,
             memory |-> Array(action.memory), mailRoute |-> action.mailRoute]}

\* the script has built roadGraph from roads and has defined mailRoute
InitSimulation ==
  /\ frame = NoFrame
  /\ compare = NoCompare
  /\ group = NoGroup
  /\ roads = villageRoads
  /\ roadGraph = buildGraph(roads)
  /\ mailRoute = villageMailRoute
  /\ heap = EmptyHeap
  /\ scenario = 0
  /\ state = 0
  /\ call = NoCall
  /\ memory = undefined
  /\ steps = 0
  /\ pc = "main"
  /\ FindRouteIdle
  /\ trace = <<>>
  /\ robot = ""

\* runRobotSimulation(VillageState.random(parcelCount), robot, memory, name),
\* with undefined as the memory of randomRobot and [] as the memory of the
\* others; the default value [] of the parameter replaces undefined
RunRobotSimulationCall ==
  /\ pc = "main"
  /\ robot' \in Robots
  /\ \E parcelCount \in 0..(IF robot' = "randomRobot" THEN MaxVillageParcels
                                                      ELSE MaxParcels) :
       \E r \in random(EmptyHeap, parcelCount) :
         /\ heap' = r.heap
         /\ scenario' = r.ret
         /\ state' = r.ret
  /\ LET argument == IF robot' = "randomRobot" THEN undefined ELSE Array(<<>>)
     IN  memory' = IF argument.defined THEN argument ELSE Array(<<>>)
  /\ steps' = 0
  /\ pc' = "runRobotSimulation"
  /\ UNCHANGED <<roads, roadGraph, call, from, to, work, i, n, result,
                 mailRoute, trace, frame, compare, group>>

\* if (state.parcels.length == 0) return turn
RunRobotSimulationReturn ==
  /\ pc = "runRobotSimulation"
  /\ parcelsEmpty(heap, state)
  /\ pc' = "done"
  /\ UNCHANGED <<roads, roadGraph, heap, scenario, state, call, memory, steps,
                 from, to, work, i, n, result, mailRoute, trace, robot, frame, compare,
                 group>>

\* one turn: action = robot(state, memory); state = state.move(action.direction);
\* memory = action.memory; turn++ (the counter is held in steps).  An error
\* thrown by the robot leaves runRobotSimulation.
RunRobotSimulationTurn ==
  /\ pc = "runRobotSimulation"
  /\ ~parcelsEmpty(heap, state)
  /\ steps < MaxVillageTurns
  /\ \E action \in Robot(robot, heap, state, memory) :
       IF action.threw
         THEN /\ pc' = "threw"
              /\ UNCHANGED <<heap, state, call, memory, mailRoute, steps>>
         ELSE /\ MoveCall(state, action.direction)
              /\ memory' = action.memory
              /\ mailRoute' = action.mailRoute
              /\ steps' = increment(steps)
              /\ pc' = pc
  /\ UNCHANGED <<roads, roadGraph, scenario, from, to, work, i, n, result,
                 trace, robot, frame, compare, group>>

NextSimulation ==
  RunRobotSimulationCall \/ RunRobotSimulationReturn \/ RunRobotSimulationTurn

SpecSimulation == InitSimulation /\ [][NextSimulation]_vars

---------------------------------------------------------------------------
(* Properties of the simulation runs (SpecSimulation) *)

\* C25: in every run of the runner on the village graph from a scenario of
\* VillageState.random with an empty memory, with randomRobot, routeRobot or
\* goalOrientedRobot, the direction of every turn is in the adjacency sequence
\* of the place the state had: move never returns its receiver, the state moves
\* to the direction, and no strategy throws.
C25_DirectionsAreAdjacent ==
  /\ pc # "threw"
  /\ pc \in {"runRobotSimulation", "done"} =>
       /\ robot \in Robots
       /\ steps = 0 => (call = NoCall /\ state = scenario)
       /\ steps > 0 =>
            /\ call.op = "move"
            /\ call.place \in DOMAIN roadGraph
            /\ includes(roadGraph[call.place], call.destination)
            /\ call.ret # call.this
            /\ call.ret = state
            /\ PlaceOf(heap, state) = call.destination

\* routeRobot has gone round the whole preset route without delivering, and its
\* fourteenth turn is the first road of the route again, from the Post Office
C25_Witness ==
  /\ pc = "runRobotSimulation"
  /\ robot = "routeRobot"
  /\ steps = Len(villageMailRoute) + 1
  /\ call.place = "Post Office"
  /\ call.destination = villageMailRoute[1]
  /\ call.ret # call.this
  /\ Len(ParcelsOf(heap, state)) > 0

\* C28 as stated: randomRobot returns an empty array as the memory on every
\* call, so the memory of the runner is an empty array all through a run of
\* randomRobot.
C28_RandomWalkMemoryAlwaysEmpty ==
  (robot = "randomRobot" /\ pc \in {"runRobotSimulation", "done"}) =>
    /\ memory = Array(<<>>)
    /\ \A action \in randomRobot(heap, state, memory) : action.memory = Array(<<>>)

\* C28, amended: randomRobot returns no memory on any call.  The memory of the
\* runner is the empty array of the default parameter until the first turn and
\* undefined after every turn; randomRobot is the only strategy that leaves it
\* undefined.
C28_RandomWalkMemoryUndefinedAfterFirstTurn ==
  pc \in {"runRobotSimulation", "done"} =>
    /\ robot = "randomRobot" =>
         /\ \A action \in randomRobot(heap, state, memory) : action.memory = undefined
         /\ steps = 0 => memory = Array(<<>>)
         /\ steps > 0 => memory = undefined
    /\ robot # "randomRobot" => memory.defined

\* a run of randomRobot has returned after two turns or more with an undefined
\* memory
C28_Witness ==
  /\ pc = "done"
  /\ robot = "randomRobot"
  /\ steps >= 2
  /\ call.op = "move"
  /\ ~memory.defined
  /\ Len(ParcelsOf(heap, scenario)) = 1

---------------------------------------------------------------------------
(* The comparison of two strategies *)

\* largest number of runs compareRobots is called with
MaxRuns == 3

\* the parcelCount of the scenarios compareRobots generates (5 in the program,
\* the default value of the parameter of VillageState.random)
DefaultParcelCount == 1

\* the edge lists of the comparisons: the lists of at most MaxRoads roads that
\* start with a road from the origin to another location (named A)
ComparedRoads == {rs \in WorldRoads : rs[1] = Road(Origin, "A")}

\* the preset routes of the comparisons: the routes of at most MaxRoute
\* locations that start along the first road
ComparedRoutes(entries) == {r \in Routes(entries) : r[1] = "A"}

\* the strategies compareRobots is called with
ComparedRobots == {"routeRobot", "goalOrientedRobot"}

\* the initial memories compareRobots is called with: the script's [], and one
\* direction
ComparedMemories == {<<>>, <<"A">>}

\* a toFixed that cuts the digits after the second decimal off
toFixedTruncated(total, runs) == (100 * total) \div runs

\* (total / runs).toFixed(2) for integers total >= 0 and runs >= 1, as the
\* number of hundredths the string denotes: the nearest number with two decimals,
\* the larger one when two are as near
toFixed(total, runs) == (200 * total + runs) \div (2 * runs)

\* the script has not run yet
InitCompare ==
  /\ frame = NoFrame
  /\ compare = NoCompare
  /\ group = NoGroup
  /\ roads = <<>>
  /\ roadGraph = <<>>
  /\ heap = EmptyHeap
  /\ scenario = 0
  /\ state = 0
  /\ call = NoCall
  /\ memory = <<>>
  /\ steps = 0
  /\ pc = "main"
  /\ FindRouteIdle
  /\ StrategyIdle

\* the script builds roadGraph, has a preset route as mailRoute, and calls compareRobots(robot1, memory1, name1, robot2, memory2,
\* name2, runs):  let total1 = 0, total2 = 0;  let i = 0
CompareRobotsCall ==
  /\ pc = "main"
  /\ roads' \in ComparedRoads
  /\ roadGraph' = buildGraph(roads')
  /\ mailRoute' \in ComparedRoutes(DOMAIN roadGraph')
  /\ \E robot1 \in ComparedRobots, robot2 \in ComparedRobots,
        memory1 \in ComparedMemories, memory2 \in ComparedMemories,
        runs \in 1..MaxRuns :
       compare' = [NoCompare EXCEPT !.robot1 = robot1, !.memory1 = memory1,
                                    !.robot2 = robot2, !.memory2 = memory2,
                                    !.runs = runs, !.preset = mailRoute']
  /\ pc' = "compareRobots"
  /\ UNCHANGED <<heap, scenario, state, call, memory, steps,
                 from, to, work, i, n, result, trace, robot, frame, group>>

\* the loop test i < runs holds:  let state = VillageState.random();  then
\* countSteps(state, robot1, memory1) is entered (trace holds the strategy
\* calls of the countSteps call in progress)
CompareRobotsIterate ==
  /\ pc = "compareRobots"
  /\ compare.i < compare.runs
  /\ \E r \in random(EmptyHeap, DefaultParcelCount) :
       /\ heap' = r.heap
       /\ scenario' = r.ret
       /\ state' = r.ret
       /\ compare' = [compare EXCEPT
                        !.running = 1,
                        !.generated = @ + 1,
                        !.produced = [place |-> PlaceOf(r.heap, r.ret),
                                      refs |-> r.heap.states[r.ret].parcels,
                                      parcels |-> ParcelsOf(r.heap, r.ret)]]
  /\ robot' = compare.robot1
  /\ memory' = compare.memory1
  /\ steps' = 0
  /\ trace' = <<>>
  /\ call' = NoCall
  /\ pc' = "countSteps"
  /\ UNCHANGED <<roads, roadGraph, from, to, work, i, n, result, mailRoute, frame, group>>

\* countSteps returns steps.  From the first call: total1 += steps, then
\* countSteps(state, robot2, memory2) is entered with the state of compareRobots.
\* From the second call: total2 += steps; i++
CompareRobotsAdd ==
  /\ pc = "countSteps"
  /\ compare.running \in {1, 2}
  /\ parcelsEmpty(heap, state)
  /\ IF compare.running = 1
       THEN /\ compare' = [compare EXCEPT !.total1 = @ + steps, !.running = 2]
            /\ state' = scenario
            /\ robot' = compare.robot2
            /\ memory' = compare.memory2
            /\ steps' = 0
            /\ trace' = <<>>
            /\ call' = NoCall
            /\ pc' = "countSteps"
       ELSE /\ compare' = [compare EXCEPT !.total2 = @ + steps, !.running = 0,
                                          !.i = increment(@)]
            /\ pc' = "compareRobots"
            /\ UNCHANGED <<state, robot, memory, steps, trace, call>>
  /\ UNCHANGED <<roads, roadGraph, heap, scenario, from, to, work, i, n, result,
                 mailRoute, frame, group>>

\* the loop test i < runs fails: the averages are logged,
\* (total1 / runs).toFixed(2) and (total2 / runs).toFixed(2)
CompareRobotsReport ==
  /\ pc = "compareRobots"
  /\ ~(compare.i < compare.runs)
  /\ compare' = [compare EXCEPT !.report = <<toFixed(compare.total1, compare.runs),
                                             toFixed(compare.total2, compare.runs)>>]
  /\ pc' = "done"
  /\ UNCHANGED <<roads, roadGraph, heap, scenario, state, call, memory, steps,
                 from, to, work, i, n, result, mailRoute, trace, robot, frame, group>>

NextCompare ==
  \/ CompareRobotsCall
  \/ CompareRobotsIterate
  \/ CountStepsTurn
  \/ CountStepsThrow
  \/ CompareRobotsAdd
  \/ CompareRobotsReport

SpecCompare == InitCompare /\ [][NextCompare]_vars

---------------------------------------------------------------------------
(* Properties of the comparison (SpecCompare) *)

\* compareRobots is running one of its two countSteps calls
Comparing == compare.running \in {1, 2} /\ pc \in {"countSteps", "threw"}

\* C21: in each iteration of compareRobots both strategies are run from the
\* scenario VillageState.random produced.  All through the iteration the
\* scenario object has the place, the parcel array and the parcel objects it was
\* produced with, and the preset route and the two initial memories are as they
\* were given; each countSteps call starts at the scenario object with its
\* strategy and its initial memory.
C21_BothRunsStartFromTheScenario ==
  /\ [](Comparing =>
          /\ PlaceOf(heap, scenario) = compare.produced.place
          /\ heap.states[scenario].parcels = compare.produced.refs
          /\ ParcelsOf(heap, scenario) = compare.produced.parcels
          /\ PlaceOf(heap, scenario) = Origin
          /\ mailRoute = compare.preset
          /\ steps = 0 =>
               /\ state = scenario
               /\ robot = (IF compare.running = 1 THEN compare.robot1 ELSE compare.robot2)
               /\ memory = (IF compare.running = 1 THEN compare.memory1
                                                   ELSE compare.memory2))
  /\ [][pc # "main" =>
          /\ compare'.memory1 = compare.memory1
          /\ compare'.memory2 = compare.memory2
          /\ compare'.robot1 = compare.robot1
          /\ compare'.robot2 = compare.robot2
          /\ mailRoute' = mailRoute]_vars

\* the first strategy has delivered the parcel in two turns, and the second is
\* about to start from the scenario with the parcel at its place
C21_Witness ==
  /\ pc = "countSteps"
  /\ compare.running = 2
  /\ steps = 0
  /\ compare.total1 = 2
  /\ compare.i = 0
  /\ state = scenario
  /\ Len(ParcelsOf(heap, state)) = 1
  /\ ParcelsOf(heap, state) = compare.produced.parcels

\* C22: when compareRobots is given the same strategy (routeRobot or
\* goalOrientedRobot) with the same initial memory in both places, the two
\* totals are equal after every iteration, and the two averages reported are
\* equal.
C22_SameStrategySameTotals ==
  (/\ pc \in {"compareRobots", "done"}
   /\ compare.robot1 = compare.robot2
   /\ compare.memory1 = compare.memory2) =>
    /\ compare.total1 = compare.total2
    /\ pc = "done" => compare.report[1] = compare.report[2]

\* routeRobot has been compared with itself, from a memory of one direction, over
\* three scenarios that took five turns together
C22_Witness ==
  /\ pc = "done"
  /\ compare.robot1 = "routeRobot"
  /\ compare.robot2 = "routeRobot"
  /\ compare.memory1 = <<"A">>
  /\ compare.memory2 = <<"A">>
  /\ compare.runs = 3
  /\ compare.total1 = 5
  /\ compare.total2 = 5
  /\ compare.report = <<167, 167>>

\* the string (total / runs).toFixed(2), as hundredths, is total / runs rounded
\* to two decimals
RoundedMean(hundredths, total, runs) ==
  /\ 2 * runs * hundredths - runs <= 200 * total
  /\ 200 * total < 2 * runs * hundredths + runs

\* C23 as stated: for runs >= 1 compareRobots generates exactly runs scenarios,
\* and the value it reports for each strategy is the strategy's total divided by
\* runs.
C23_ReportsTotalDividedByRuns ==
  pc = "done" =>
    /\ compare.runs >= 1
    /\ compare.generated = compare.runs
    /\ compare.runs * compare.report[1] = 100 * compare.total1
    /\ compare.runs * compare.report[2] = 100 * compare.total2

\* C23, amended: for runs >= 1 compareRobots generates exactly runs scenarios,
\* one at the start of each iteration; each total grows by the value countSteps
\* returns for its strategy, and by nothing else; and the value reported for
\* each strategy is its total divided by runs, rounded to two decimals.
C23_ReportsMeanToTwoDecimals ==
  /\ [](pc \in {"compareRobots", "countSteps", "threw", "done"} =>
          /\ compare.runs >= 1
          /\ compare.i <= compare.runs
          /\ compare.generated = compare.i + (IF compare.running = 0 THEN 0 ELSE 1)
          /\ pc = "done" =>
               /\ compare.i = compare.runs
               /\ compare.generated = compare.runs
               /\ Len(compare.report) = 2
               /\ RoundedMean(compare.report[1], compare.total1, compare.runs)
               /\ RoundedMean(compare.report[2], compare.total2, compare.runs)
          /\ pc # "done" => compare.report = <<>>)
  /\ [][pc # "main" =>
          /\ compare'.runs = compare.runs
          /\ IF pc = "countSteps" /\ compare.running = 1 /\ compare'.running = 2
               THEN /\ Len(ParcelsOf(heap, state)) = 0
                    /\ compare'.total1 = compare.total1 + steps
                    /\ compare'.total2 = compare.total2
             ELSE IF pc = "countSteps" /\ compare.running = 2 /\ compare'.running = 0
               THEN /\ Len(ParcelsOf(heap, state)) = 0
                    /\ compare'.total1 = compare.total1
                    /\ compare'.total2 = compare.total2 + steps
             ELSE /\ compare'.total1 = compare.total1
                  /\ compare'.total2 = compare.total2
                  /\ compare'.running # compare.running =>
                       (compare.running = 0 /\ compare'.running = 1)]_vars

\* three scenarios took the first strategy five turns and the second four:
\* the averages reported are 1.67 and 1.33
C23_Witness ==
  /\ pc = "done"
  /\ compare.runs = 3
  /\ compare.generated = 3
  /\ compare.total1 = 5
  /\ compare.total2 = 4
  /\ compare.report = <<167, 133>>

---------------------------------------------------------------------------
(* Properties of the fixed-route strategy on the village (SpecSimulation) *)

\* C31: the preset mailRoute is a closed walk of the village graph from the
\* Post Office: its first entry is adjacent to the Post Office, each entry to
\* the one before, its last entry is the Post Office, and every location of the
\* graph is an entry.  So a run of routeRobot from the Post Office with an empty
\* memory is, after k turns, at entry k mod 13 of the route with the rest of the
\* route as memory: back at the Post Office with an empty memory after every 13
\* turns.
C31_MailRouteIsClosedWalk ==
  pc \in {"runRobotSimulation", "done"} =>
    /\ Len(mailRoute) = 13
    /\ includes(roadGraph[Origin], mailRoute[1])
    /\ \A k \in 2..Len(mailRoute) : includes(roadGraph[mailRoute[k - 1]], mailRoute[k])
    /\ mailRoute[Len(mailRoute)] = Origin
    /\ {mailRoute[k] : k \in 1..Len(mailRoute)} = DOMAIN roadGraph
    /\ robot = "routeRobot" =>
         LET j == steps % Len(mailRoute)
         IN  /\ PlaceOf(heap, state) = (IF j = 0 THEN Origin ELSE mailRoute[j])
             /\ memory = Array(IF j = 0 THEN <<>> ELSE slice(mailRoute, j))

\* routeRobot has gone once round the route with a parcel left: it is at the
\* Post Office with an empty memory after 13 turns
C31_Witness ==
  /\ pc = "runRobotSimulation"
  /\ robot = "routeRobot"
  /\ steps = 13
  /\ PlaceOf(heap, state) = Origin
  /\ memory = Array(<<>>)
  /\ call.place = "Marketplace"
  /\ Len(ParcelsOf(heap, state)) > 0

\* C32: for every scenario of VillageState.random on the village graph, the
\* runner with routeRobot and an empty memory terminates and returns 26 turns at
\* most: routeRobot never throws, a state with a parcel left is reached before
\* turn 26 and has a next turn, and in a state without parcels the runner
\* returns, with a count of 26 at most.
C32_RouteRobotWithinTwoLaps ==
  (robot = "routeRobot" /\ pc \in {"runRobotSimulation", "done", "threw"}) =>
    /\ pc # "threw"
    /\ steps <= 2 * Len(villageMailRoute)
    /\ (pc = "runRobotSimulation" /\ Len(ParcelsOf(heap, state)) > 0) =>
         /\ steps < 2 * Len(villageMailRoute)
         /\ steps < MaxVillageTurns
         /\ ~ENABLED RunRobotSimulationReturn
    /\ (pc = "runRobotSimulation" /\ Len(ParcelsOf(heap, state)) = 0) =>
         ENABLED RunRobotSimulationReturn
    /\ pc = "done" => Len(ParcelsOf(heap, state)) = 0

\* a run of two parcels has returned in the second lap: the last parcel, picked
\* up at the Marketplace in turn 12, was delivered at the Farm in turn 24
C32_Witness ==
  /\ pc = "done"
  /\ robot = "routeRobot"
  /\ steps = 24
  /\ Len(ParcelsOf(heap, scenario)) = 2
  /\ ParcelsOf(heap, scenario)[2] = [place |-> "Marketplace", address |-> "Farm"]
  /\ call.destination = "Farm"

---------------------------------------------------------------------------
(* Properties of ignored moves in the runner (SpecRunner) *)

\* routeRobot runs on a state with parcels at a place that no entry of the
\* preset route is adjacent to: every direction it returns is ignored by move
NeverAdjacent ==
  /\ pc \in {"countSteps", "done", "threw"}
  /\ robot = "routeRobot"
  /\ Len(ParcelsOf(heap, scenario)) > 0
  /\ \A k \in 1..Len(mailRoute) :
       ~includes(roadGraph[PlaceOf(heap, scenario)], mailRoute[k])

\* C33: a turn of the runner in which the strategy returns a direction that is
\* not adjacent to the current place leaves the state as it is (move returns its
\* receiver), and still adds one to the turn count and takes the memory the
\* strategy returned.  So with a strategy that returns such directions forever
\* from a state with parcels the runner never returns: after any number of turns
\* it is in its loop at the initial state, with a next turn to take.
C33_IgnoredMoveStillCountsATurn ==
  /\ [](NeverAdjacent =>
          /\ pc = "countSteps"
          /\ state = scenario
          /\ steps = Len(trace)
          /\ Len(ParcelsOf(heap, state)) > 0
          /\ ~ENABLED CountStepsReturn
          /\ steps < MaxTurns => ENABLED CountStepsTurn)
  /\ [][(pc = "countSteps" /\ pc' = "countSteps" /\ Len(trace') = Len(trace) + 1) =>
          LET action == trace'[Len(trace')]
          IN  /\ steps' = steps + 1
              /\ memory' = action.memory
              /\ action.given = memory
              /\ action.state = state
              /\ ~includes(roadGraph[PlaceOf(heap, state)], action.direction) =>
                   /\ state' = state
                   /\ heap'.states[state'] = heap.states[state]
                   /\ ParcelsOf(heap', state') = ParcelsOf(heap, state)
                   /\ call'.ret = call'.this]_vars

\* every turn of the model has been an ignored move: the runner is still in its
\* loop at the initial state, having counted MaxTurns turns
C33_Witness ==
  /\ NeverAdjacent
  /\ pc = "countSteps"
  /\ steps = MaxTurns
  /\ state = scenario
  /\ Len(mailRoute) = 2
  /\ mailRoute[1] # mailRoute[2]
  /\ memory = <<>>

---------------------------------------------------------------------------
(* The runner with the random-walk strategy on the village, run without end *)

\* count after which the model stops adding to the turn count of a random walk
\* (the walk itself goes on)
MaxCounted == 2

\* the locations of the village
villagePlaces == DOMAIN buildGraph(villageRoads)

\* countSteps(VillageState.random(parcelCount), randomRobot, []) has been called
\* on the village, with one parcel at most
InitWalk ==
  /\ frame = NoFrame
  /\ compare = NoCompare
  /\ group = NoGroup
  /\ roads = villageRoads
  /\ roadGraph = buildGraph(roads)
  /\ mailRoute = villageMailRoute
  /\ \E parcelCount \in 0..MaxVillageParcels :
       \E r \in random(EmptyHeap, parcelCount) :
         /\ heap = r.heap
         /\ scenario = r.ret
         /\ state = r.ret
  /\ call = NoCall
  /\ memory = Array(<<>>)
  /\ steps = 0
  /\ pc = "countSteps"
  /\ FindRouteIdle
  /\ trace = <<>>
  /\ robot = "randomRobot"

\* one turn in which randomRobot, at place, picks direction:
\* action = robot(state, memory); state = state.move(action.direction);
\* memory = action.memory; steps++
WalkTurn(place, direction) ==
  /\ pc = "countSteps"
  /\ ~parcelsEmpty(heap, state)
  /\ PlaceOf(heap, state) = place
  /\ \E action \in randomRobot(heap, state, memory) :
       /\ ~action.threw
       /\ action.direction = direction
       /\ MoveCall(state, action.direction)
       /\ memory' = action.memory
  /\ steps' = IF steps < MaxCounted THEN increment(steps) ELSE steps
  /\ UNCHANGED <<roads, roadGraph, scenario, pc, from, to, work, i, n, result,
                 mailRoute, trace, robot, frame, compare, group>>

\* if (state.parcels.length == 0) return steps
WalkReturn ==
  /\ pc = "countSteps"
  /\ parcelsEmpty(heap, state)
  /\ pc' = "done"
  /\ UNCHANGED <<roads, roadGraph, heap, scenario, state, call, memory, steps,
                 from, to, work, i, n, result, mailRoute, trace, robot, frame, compare,
                 group>>

NextWalk ==
  \/ \E place \in villagePlaces, direction \in villagePlaces : WalkTurn(place, direction)
  \/ WalkReturn

\* the random walk with no assumption on the picks
SpecWalk == InitWalk /\ [][NextWalk]_vars

\* the hop counts between the locations of the village
villageDist ==
  [p \in villagePlaces |->
     [q \in villagePlaces |-> Dist(buildGraph(villageRoads), p, q)]]

\* the largest hop count of the village
villageDiameter == Diameter(buildGraph(villageRoads))

\* the location the first parcel of the state has to be taken to next: its
\* place while it is elsewhere, its address once it is carried
WalkTarget ==
  LET parcel == ParcelsOf(heap, state)[1]
  IN  IF parcel.place # PlaceOf(heap, state) THEN parcel.place ELSE parcel.address

\* a turn in which randomRobot, k hops from that location, picks a neighbour
\* that is k - 1 hops from it
Closer(k) ==
  /\ pc = "countSteps"
  /\ ~parcelsEmpty(heap, state)
  /\ villageDist[PlaceOf(heap, state)][WalkTarget] = k
  /\ \E direction \in villagePlaces :
       /\ villageDist[direction][WalkTarget] = k - 1
       /\ WalkTurn(PlaceOf(heap, state), direction)

\* Closer(k) can be taken: the run has a parcel left and is k hops from the
\* location (a neighbour k - 1 hops from it exists, and a move to a neighbour
\* changes the state)
CloserPossible(k) ==
  /\ pc = "countSteps"
  /\ ~parcelsEmpty(heap, state)
  /\ villageDist[PlaceOf(heap, state)][WalkTarget] = k

\* The random walks that are strongly fair in the picks that lead closer.  A
\* walk that is strongly fair in each pick (place, neighbour) is one of them: a
\* parcel is picked up and delivered once, so in a walk without end the location
\* WalkTarget is the same from some turn on, and from then on Closer(k) is the
\* union of the picks (place, neighbour) with place k hops and neighbour k - 1
\* hops from it; when one of these picks is possible again and again it is made
\* again and again.  Strong fairness of Closer(k) is written out, with
\* CloserPossible(k) for the states in which Closer(k) can be taken.  The
\* runner itself is not delayed: once no parcel is left it returns.
SpecWalkFair ==
  /\ InitWalk
  /\ [][NextWalk]_vars
  /\ \A k \in 1..villageDiameter :
       <>[](~CloserPossible(k)) \/ []<><<Closer(k)>>_vars
  /\ WF_vars(WalkReturn)

---------------------------------------------------------------------------
(* Properties of the random walk (SpecWalkFair) *)

\* C34: with randomRobot on the village graph, in every run that makes each
\* pick of a neighbour of a place again and again when it is at the place again
\* and again, a state with zero parcels is reached, and the runner returns.
\* (Without that assumption the runner need not return: the walk can come back
\* to its start with the parcel where it was, and do so again.)
C34_FairRandomWalkDelivers ==
  <>(Len(ParcelsOf(heap, state)) = 0 /\ pc = "done")

\* the walk is back where it started, with the parcel not yet picked up: the
\* turns it has taken can be taken again, for ever
C34_Witness ==
  /\ pc = "countSteps"
  /\ steps >= 2
  /\ PlaceOf(heap, state) = PlaceOf(heap, scenario)
  /\ call.place = "Marketplace"
  /\ Len(ParcelsOf(heap, state)) = 1
  /\ ParcelsOf(heap, state) = ParcelsOf(heap, scenario)
  /\ ParcelsOf(heap, state)[1].place # PlaceOf(heap, state)

---------------------------------------------------------------------------
(* The two runners called one after the other with the same arguments *)

\* the strategies that return one action for a state and a memory
DeterministicRobots == {"routeRobot", "goalOrientedRobot"}

\* the memory arguments the two runners are called with
RunnerArguments ==
  {undefined, Array(<<>>), Array(<<"Marketplace">>), Array(<<"Farm">>)}

\* turns after which the model stops a run of the two runners
MaxPairedTurns == 40

\* a parameter default that replaces every argument
memoryDefaultAlways(argument) == Array(<<>>)

\* the default value of runRobotSimulation's parameter  memory = []  : it
\* replaces the argument undefined
memoryDefault(argument) == IF argument.defined THEN argument ELSE Array(<<>>)

\* what a runner holds at the loop test: the state (its place and its parcels),
\* the memory and the counter
Visited(runner, h, s, m, count) ==
  [runner |-> runner, place |-> PlaceOf(h, s), parcels |-> ParcelsOf(h, s),
   memory |-> m, steps |-> count]

\* the script holds a state of VillageState.random on the village, a
\* deterministic strategy and a memory argument (the first entry of trace), and
\* is about to call both runners with them
InitBoth ==
  /\ frame = NoFrame
  /\ compare = NoCompare
  /\ group = NoGroup
  /\ roads = villageRoads
  /\ roadGraph = buildGraph(roads)
  /\ mailRoute = villageMailRoute
  /\ \E parcelCount \in 0..MaxVillageParcels :
       \E r \in random(EmptyHeap, parcelCount) :
         /\ heap = r.heap
         /\ scenario = r.ret
         /\ state = r.ret
  /\ call = NoCall
  /\ memory \in RunnerArguments
  /\ steps = 0
  /\ pc = "main"
  /\ FindRouteIdle
  /\ trace = <<Visited("main", heap, scenario, memory, 0)>>
  /\ robot \in DeterministicRobots

\* runRobotSimulation(state, robot, memory, name) is entered
BothSimulationCall ==
  /\ pc = "main"
  /\ state' = scenario
  /\ memory' = memoryDefault(trace[1].memory)
  /\ steps' = 0
  /\ trace' = Append(trace, Visited("runRobotSimulation", heap, state', memory', steps'))
  /\ pc' = "runRobotSimulation"
  /\ UNCHANGED <<roads, roadGraph, heap, scenario, call, from, to, work, i, n,
                 result, mailRoute, robot, frame, compare, group>>

\* one turn of runRobotSimulation, the loop test of the next turn recorded
BothSimulationTurn ==
  /\ pc = "runRobotSimulation"
  /\ ~parcelsEmpty(heap, state)
  /\ steps < MaxPairedTurns
  /\ \E action \in Robot(robot, heap, state, memory) :
       IF action.threw
         THEN /\ pc' = "threw"
              /\ UNCHANGED <<heap, state, call, memory, mailRoute, steps, trace>>
         ELSE /\ MoveCall(state, action.direction)
              /\ memory' = action.memory
              /\ mailRoute' = action.mailRoute
              /\ steps' = increment(steps)
              /\ trace' = Append(trace, Visited("runRobotSimulation", heap', state',
                                                memory', steps'))
              /\ pc' = pc
  /\ UNCHANGED <<roads, roadGraph, scenario, from, to, work, i, n, result,
                 robot, frame, compare, group>>

\* runRobotSimulation returns turn, and countSteps(state, robot, memory) is
\* entered with the same arguments
BothCountStepsCall ==
  /\ pc = "runRobotSimulation"
  /\ parcelsEmpty(heap, state)
  /\ state' = scenario
  /\ memory' = trace[1].memory
  /\ steps' = 0
  /\ trace' = Append(trace, Visited("countSteps", heap, state', memory', steps'))
  /\ pc' = "countSteps"
  /\ UNCHANGED <<roads, roadGraph, heap, scenario, call, from, to, work, i, n,
                 result, mailRoute, robot, frame, compare, group>>

\* one turn of countSteps, the loop test of the next turn recorded
BothCountStepsTurn ==
  /\ pc = "countSteps"
  /\ ~parcelsEmpty(heap, state)
  /\ steps < MaxPairedTurns
  /\ \E action \in Robot(robot, heap, state, memory) :
       IF action.threw
         THEN /\ pc' = "threw"
              /\ UNCHANGED <<heap, state, call, memory, mailRoute, steps, trace>>
         ELSE /\ MoveCall(state, action.direction)
              /\ memory' = action.memory
              /\ mailRoute' = action.mailRoute
              /\ steps' = increment(steps)
              /\ trace' = Append(trace, Visited("countSteps", heap', state',
                                                memory', steps'))
              /\ pc' = pc
  /\ UNCHANGED <<roads, roadGraph, scenario, from, to, work, i, n, result,
                 robot, frame, compare, group>>

\* countSteps returns steps
BothCountStepsReturn ==
  /\ pc = "countSteps"
  /\ parcelsEmpty(heap, state)
  /\ pc' = "done"
  /\ UNCHANGED <<roads, roadGraph, heap, scenario, state, call, memory, steps,
                 from, to, work, i, n, result, mailRoute, trace, robot, frame, compare,
                 group>>

NextBoth ==
  \/ BothSimulationCall
  \/ BothSimulationTurn
  \/ BothCountStepsCall
  \/ BothCountStepsTurn
  \/ BothCountStepsReturn

SpecBoth == InitBoth /\ [][NextBoth]_vars

---------------------------------------------------------------------------
(* Properties of the two runners (SpecBoth) *)

\* the (state, memory) pairs and counts a runner has passed through
Passed(runner) ==
  LET own == SelectSeq(trace, LAMBDA v : v.runner = runner)
  IN  [k \in 1..Len(own) |->
         [place |-> own[k].place, parcels |-> own[k].parcels,
          memory |-> own[k].memory, steps |-> own[k].steps]]

\* countSteps has so far passed through the pairs runRobotSimulation passed
\* through, no runner has thrown, and when countSteps has returned it has
\* passed through all of them and returns the count runRobotSimulation returned
SameRun ==
  LET narrated == Passed("runRobotSimulation")
      silent == Passed("countSteps")
  IN  /\ pc # "threw"
      /\ Len(silent) <= Len(narrated)
      /\ silent = SubSeq(narrated, 1, Len(silent))
      /\ pc = "countSteps" /\ Len(silent) = Len(narrated) => parcelsEmpty(heap, state)
      /\ pc = "done" =>
           /\ Len(silent) = Len(narrated)
           /\ steps = narrated[Len(narrated)].steps
           /\ steps = Len(narrated) - 1

---------------------------------------------------------------------------
(* The class Group *)

\* add and delete calls after which the model stops calling them
MaxGroupCalls == 4
\* largest length of the iterable given to Group.from
MaxIterable == 2

\* the value NaN
NaN == "NaN"

\* the values given to the methods of a Group
Values == {"a", "b", NaN}

\* a === b : NaN is not equal to itself
strictEquals(a, b) == a = b /\ a # NaN

\* this.members.includes(value), which compares with SameValueZero: NaN is
\* found
has(members, value) == includes(members, value)

\* if (!this.has(value)) { this.members.push(value); }
add(members, value) == IF ~has(members, value) THEN Append(members, value) ELSE members

\* this.members.filter((v) => v !== value)
delete(members, value) == SelectSeq(members, LAMBDA v : ~strictEquals(v, value))

\* let group = new Group(); for (let value of iterable) { group.add(value); }
RECURSIVE GroupFrom(_)
GroupFrom(iterable) ==
  IF Len(iterable) = 0
    THEN <<>>
    ELSE add(GroupFrom(SubSeq(iterable, 1, Len(iterable) - 1)), iterable[Len(iterable)])

\* the iterables of the model
Iterables == UNION {[1..k -> Values] : k \in 0..MaxIterable}

\* the record of a call of add or delete
GroupCall(op, value) == [op |-> op, value |-> value]

\* new Group() has run
InitGroup ==
  /\ frame = NoFrame
  /\ compare = NoCompare
  /\ group = NoGroup
  /\ roads = <<>>
  /\ roadGraph = <<>>
  /\ heap = EmptyHeap
  /\ scenario = 0
  /\ state = 0
  /\ call = NoCall
  /\ memory = <<>>
  /\ steps = 0
  /\ pc = "main"
  /\ FindRouteIdle
  /\ StrategyIdle

\* the variables of the delivery script
script == <<roads, roadGraph, heap, scenario, state, call, memory, steps, pc,
            from, to, work, i, n, result, mailRoute, trace, robot, frame, compare>>

\* Group.from(iterable) in place of new Group()
GroupFromCall(iterable) ==
  /\ group = NoGroup
  /\ group' = [NoGroup EXCEPT
                 !.members = GroupFrom(iterable),
                 !.calls = [k \in 1..Len(iterable) |-> GroupCall("add", iterable[k])]]
  /\ UNCHANGED script

\* group.add(value), with no iterator in use
Add(value) ==
  /\ group.iterator # "live"
  /\ Len(group.calls) < MaxGroupCalls
  /\ group' = [NoGroup EXCEPT
                 !.members = add(group.members, value),
                 !.calls = Append(group.calls, GroupCall("add", value))]
  /\ UNCHANGED script

\* group.delete(value), with no iterator in use
Delete(value) ==
  /\ group.iterator # "live"
  /\ Len(group.calls) < MaxGroupCalls
  /\ group' = [NoGroup EXCEPT
                 !.members = delete(group.members, value),
                 !.calls = Append(group.calls, GroupCall("delete", value))]
  /\ UNCHANGED script

\* group.has(value)
Has(value) ==
  /\ group' = [group EXCEPT
                 !.returned = <<[value |-> value, result |-> has(group.members, value)]>>]
  /\ UNCHANGED script

\* group[Symbol.iterator]() : let index = 0
Iterator ==
  /\ group.iterator # "live"
  /\ group' = [group EXCEPT !.iterator = "live", !.index = 0, !.yielded = <<>>]
  /\ UNCHANGED script

\* next() of the iterator
IteratorNext ==
  /\ group.iterator = "live"
  /\ IF group.index >= Len(group.members)
       THEN group' = [group EXCEPT !.iterator = "done"]
       ELSE group' = [group EXCEPT !.yielded = Append(@, group.members[group.index + 1]),
                                   !.index = @ + 1]
  /\ UNCHANGED script

NextGroup ==
  \/ \E iterable \in Iterables : GroupFromCall(iterable)
  \/ \E value \in Values : Add(value)
  \/ \E value \in Values : Delete(value)
  \/ \E value \in Values : Has(value)
  \/ Iterator
  \/ IteratorNext

SpecGroup == InitGroup /\ [][NextGroup]_vars

---------------------------------------------------------------------------
(* Properties of Group (SpecGroup) *)

\* value was added after its last deletion (or never deleted since being added)
Live(value) ==
  \E k \in 1..Len(group.calls) :
     /\ group.calls[k] = GroupCall("add", value)
     /\ \A j \in (k + 1)..Len(group.calls) : group.calls[j] # GroupCall("delete", value)

\* the call that inserted a live value: its first add after its last deletion
Inserted(value) ==
  CHOOSE k \in 1..Len(group.calls) :
     /\ group.calls[k] = GroupCall("add", value)
     /\ \A j \in (k + 1)..Len(group.calls) : group.calls[j] # GroupCall("delete", value)
     /\ \A m \in 1..(k - 1) :
          group.calls[m] = GroupCall("add", value) =>
            \E j \in (m + 1)..(k - 1) : group.calls[j] = GroupCall("delete", value)

\* members contains no value twice
NoValueTwice ==
  \A a, b \in 1..Len(group.members) : a # b => group.members[a] # group.members[b]

\* has(v) is true exactly when v is live, as a computed value and as the value
\* a has call has returned since the last add or delete
HasIsLive ==
  /\ \A value \in Values : has(group.members, value) <=> Live(value)
  /\ group.returned # <<>> =>
       group.returned[1].result = Live(group.returned[1].value)

\* the members are in insertion order, and the iterator has yielded the first
\* index of them, all of them when it is done
IterationInOrder ==
  /\ \A a, b \in 1..Len(group.members) :
       a < b /\ Live(group.members[a]) /\ Live(group.members[b]) =>
         Inserted(group.members[a]) < Inserted(group.members[b])
  /\ group.iterator # "none" =>
       group.yielded = SubSeq(group.members, 1, group.index)
  /\ group.iterator = "done" => group.yielded = group.members

\* a delete of a value that is no member leaves members as it is
DeleteOfAbsent ==
  \A value \in Values :
     /\ group'.calls = Append(group.calls, GroupCall("delete", value))
     /\ ~has(group.members, value)
     => group'.members = group.members

\* NaN has been given to delete
NaNDeleted == \E k \in 1..Len(group.calls) : group.calls[k] = GroupCall("delete", NaN)

\* C36: after any sequence of add and delete calls on a Group (from new Group()
\* or Group.from), members contains no value twice, has(v) is true exactly when
\* v was added after its last deletion, a delete of an absent value changes
\* nothing, and iteration yields each member exactly once in insertion order.
C36_GroupIsASet ==
  /\ [](NoValueTwice /\ HasIsLive /\ IterationInOrder)
  /\ [][DeleteOfAbsent]_vars

\* the same for the sequences of calls in which delete is not given NaN
GroupIsASetWithoutNaN ==
  /\ [](NoValueTwice /\ (NaNDeleted \/ (HasIsLive /\ IterationInOrder)))
  /\ [][DeleteOfAbsent]_vars

\* add(NaN), delete(NaN), has(NaN): has returned true
GroupKeepsNaN ==
  /\ group.calls = <<GroupCall("add", NaN), GroupCall("delete", NaN)>>
  /\ group.members = <<NaN>>
  /\ group.returned = <<[value |-> NaN, result |-> TRUE]>>

\* a value added, deleted and added again is yielded after the value added in
\* between
GroupReinserted ==
  /\ group.calls = <<GroupCall("add", "a"), GroupCall("add", "b"),
                     GroupCall("delete", "a"), GroupCall("add", "a")>>
  /\ group.iterator = "done"
  /\ group.yielded = <<"b", "a">>

============================================================================
